---- MODULE Spec2Model ----
(***************************************************************************)
(* IPeeps: a client and presentation layer around an IP-geolocation REST   *)
(* API.  This module models the response transformer                        *)
(* (src/src/data_processor.py) and the transport adapter                    *)
(* (src/src/api_client.py), the command-line front end (src/src/main.py)    *)
(* and the web front end (src/src/app.py), and states their properties.     *)
(*                                                                         *)
(* Python values.  A value is a record [t, s, n, d]:                        *)
(*   t  the type tag: "str", "int", "bool", "none", "dict", "list";         *)
(*   s  for a str its text, for a list its elements;                        *)
(*   n  for an int its value, for a bool 0 or 1;                            *)
(*   d  for a dict its mapping from keys to values.                         *)
(* The text of a str is a sequence of tokens.  A colon and a period occur   *)
(* only as the one-character tokens ":" and ".", so that the substring      *)
(* test `':' in s` is membership of the token in s.                         *)
(***************************************************************************)
EXTENDS Integers, Sequences, FiniteSets, TLC

VARIABLES
    raw,      \* the raw response handed to the transformer
    op,       \* the operation that was applied ("init" before any)
    arg,      \* the argument the operation was applied to
    result,   \* its outcome: [exc, val]
    calls,    \* transport adapter: number of outbound GETs issued so far
    printed,  \* transport adapter: the message printed by the last call
    last,     \* transport adapter: the last call, [method, net, gets]
    frontend, \* the front end running: "cli" (main.py), "web" (app.py), "none"
    api_key,  \* the value of ABSTRACT_API_KEY in the environment
    api_client, \* the front end's api_client: "unset", "ready" or "None"
    pc,       \* front end: "start", "menu"/"serving", "done", "exit1"
    running,  \* CLI: self.running
    slot,     \* CLI: self.last_processed_data
    screen,   \* CLI: what the front end printed in the last step
    prompts,  \* CLI: the inputs the last step asked for
    files,    \* CLI: the files the last step wrote, [name, kind, data]
    sent,     \* the address the front end passed to the adapter (or None)
    reply,    \* web: the response to the last request, [status, body]
    history   \* repeated calls of the transformer: [name, data, out] of each

\* the state of the front ends
front ==
    <<frontend, api_key, api_client, pc, running, slot, screen, prompts, files,
      sent, reply>>

vars == <<raw, op, arg, result, calls, printed, last, front, history>>

----------------------------------------------------------------------------
(* Bounds of the model *)

\* longest ip_address text drawn, in tokens
MaxIpLen == 2
\* most optional top-level keys present at once in a drawn raw response
MaxOptional == 2
\* most adapter calls in one run
MaxCalls == 3
\* most calls of the transformer in one run of repeated calls
MaxHistory == 3

----------------------------------------------------------------------------
(* Python values *)

EmptyMap == [k \in {} |-> 0]

Val(t, s, n, d) == [t |-> t, s |-> s, n |-> n, d |-> d]

PyStr(s) == Val("str", s, 0, EmptyMap)
PyInt(n) == Val("int", <<>>, n, EmptyMap)
PyBool(b) == Val("bool", <<>>, IF b THEN 1 ELSE 0, EmptyMap)
PyNone == Val("none", <<>>, 0, EmptyMap)
PyDict(d) == Val("dict", <<>>, 0, d)
PyList(s) == Val("list", s, 0, EmptyMap)

PyTrue == PyBool(TRUE)
PyFalse == PyBool(FALSE)

\* bool(x): Python's truth value of x
Truthy(x) ==
    CASE x.t = "str" -> x.s # <<>>
      [] x.t = "list" -> x.s # <<>>
      [] x.t = "int" -> x.n # 0
      [] x.t = "bool" -> x.n # 0
      [] x.t = "dict" -> DOMAIN x.d # {}
      [] OTHER -> FALSE

Digit(n) == <<"0", "1", "2", "3", "4", "5", "6", "7", "8", "9">>[n + 1]

RECURSIVE NatToStr(_)
NatToStr(n) ==
    IF n < 10 THEN <<Digit(n)>> ELSE NatToStr(n \div 10) \o <<Digit(n % 10)>>

\* str(x) for the scalars: the decimal text of an int, 'True'/'False', 'None'
str(x) ==
    CASE x.t = "str" -> x
      [] x.t = "int" ->
            PyStr(IF x.n < 0 THEN <<"-">> \o NatToStr(-x.n) ELSE NatToStr(x.n))
      [] x.t = "bool" -> PyStr(IF x.n # 0 THEN <<"True">> ELSE <<"False">>)
      [] x.t = "none" -> PyStr(<<"None">>)

\* an outcome of a call: a returned value, or a raised exception
Ok(v) == [exc |-> "", val |-> v]
Raise(e) == [exc |-> e, val |-> PyNone]
NoResult == [exc |-> "", val |-> PyNone]

\* d.get(k, default) on a dict d
Get(x, k, default) == IF k \in DOMAIN x.d THEN x.d[k] ELSE default

\* `c in x`: defined for str (substring), list (element) and dict (key)
SupportsIn(x) == x.t \in {"str", "list", "dict"}
In(c, x) ==
    CASE x.t = "dict" -> c \in DOMAIN x.d
      [] OTHER -> \E i \in DOMAIN x.s : x.s[i] = c

NA == PyStr(<<"N/A">>)
EmptyDict == PyDict(EmptyMap)

----------------------------------------------------------------------------
(* DataProcessor *)

\* validate_response without the loop over required_fields
validate_response_no_required_check(data) ==
    IF ~Truthy(data) THEN FALSE ELSE TRUE

\* validate_response testing the value of the field instead of its presence
validate_response_truthy_address(data) ==
    IF ~Truthy(data) THEN FALSE
    ELSE IF ~Truthy(Get(data, "ip_address", PyNone)) THEN FALSE
    ELSE TRUE

validate_response(data) ==
    IF ~Truthy(data) THEN FALSE
    ELSE IF ~In("ip_address", data) THEN FALSE
    ELSE TRUE

\* _determine_ip_version testing the period before the colon
_determine_ip_version_period_first(ip_address) ==
    IF ~SupportsIn(ip_address) THEN Raise("TypeError")
    ELSE IF In(".", ip_address) THEN Ok(PyStr(<<"IPv4">>))
    ELSE IF In(":", ip_address) THEN Ok(PyStr(<<"IPv6">>))
    ELSE Ok(PyStr(<<"Unknown">>))

_determine_ip_version(ip_address) ==
    IF ~SupportsIn(ip_address) THEN Raise("TypeError")
    ELSE IF In(":", ip_address) THEN Ok(PyStr(<<"IPv6">>))
    ELSE IF In(".", ip_address) THEN Ok(PyStr(<<"IPv4">>))
    ELSE Ok(PyStr(<<"Unknown">>))

extract_basic_info(data) ==
    LET version == _determine_ip_version(Get(data, "ip_address", PyStr(<<>>)))
    IN  IF version.exc # "" THEN version
        ELSE Ok(PyDict(
              ("IP Address" :> Get(data, "ip_address", NA))
           @@ ("IP Version" :> version.val)
           @@ ("City" :> Get(data, "city", NA))
           @@ ("Region" :> Get(data, "region", NA))
           @@ ("Country" :> Get(data, "country", NA))
           @@ ("Country Code" :> Get(data, "country_code", NA))
           @@ ("Continent" :> Get(data, "continent", NA))
           @@ ("Postal Code" :> Get(data, "postal_code", NA))
           @@ ("Latitude" :> str(Get(data, "latitude", NA)))
           @@ ("Longitude" :> str(Get(data, "longitude", NA)))))

\* extract_connection_info whose 'Organization' falls back on the ISP name
extract_connection_info_org_from_isp(data) ==
    LET connection == Get(data, "connection", EmptyDict)
    IN  IF connection.t # "dict" THEN Raise("AttributeError")
        ELSE Ok(PyDict(
              ("ISP" :> Get(connection, "isp_name", NA))
           @@ ("Organization" :> Get(connection, "organization_name",
                                     Get(connection, "isp_name", NA)))
           @@ ("ASN" :> str(Get(connection, "autonomous_system_number", NA)))
           @@ ("ASN Organization" :>
                   Get(connection, "autonomous_system_organization", NA))
           @@ ("Connection Type" :> Get(connection, "connection_type", NA))))

extract_connection_info(data) ==
    LET connection == Get(data, "connection", EmptyDict)
    IN  IF connection.t # "dict" THEN Raise("AttributeError")
        ELSE Ok(PyDict(
              ("ISP" :> Get(connection, "isp_name", NA))
           @@ ("Organization" :> Get(connection, "organization_name", NA))
           @@ ("ASN" :> str(Get(connection, "autonomous_system_number", NA)))
           @@ ("ASN Organization" :>
                   Get(connection, "autonomous_system_organization", NA))
           @@ ("Connection Type" :> Get(connection, "connection_type", NA))))

extract_timezone_info(data) ==
    LET timezone == Get(data, "timezone", EmptyDict)
    IN  IF timezone.t # "dict" THEN Raise("AttributeError")
        ELSE Ok(PyDict(
              ("Timezone Name" :> Get(timezone, "name", NA))
           @@ ("Abbreviation" :> Get(timezone, "abbreviation", NA))
           @@ ("GMT Offset" :> str(Get(timezone, "gmt_offset", NA)))
           @@ ("Current Time" :> Get(timezone, "current_time", NA))
           @@ ("Is DST" :> str(Get(timezone, "is_dst", NA)))))

\* _check_proxy reading the VPN flag
_check_proxy_from_vpn(security) == Get(security, "is_vpn", PyFalse)

_check_proxy(security) == Get(security, "is_proxy", PyFalse)

_check_tor(security) == Get(security, "is_tor", PyFalse)

\* _check_relay with the sentinel of the other extractors as its default
_check_relay_na_default(security) == Get(security, "is_relay", NA)

_check_relay(security) == Get(security, "is_relay", PyFalse)

\* ", ".join(threats)
RECURSIVE Join(_)
Join(threats) ==
    IF Len(threats) = 0 THEN <<>>
    ELSE IF Len(threats) = 1 THEN threats
    ELSE <<Head(threats), ", ">> \o Join(Tail(threats))

\* _assess_threat_level with a third tier for three or more indicators
_assess_threat_level_high_tier(security) ==
    LET t1 == IF Truthy(Get(security, "is_vpn", PyFalse)) THEN <<"VPN">> ELSE <<>>
        t2 == IF Truthy(Get(security, "is_proxy", PyFalse))
              THEN Append(t1, "Proxy") ELSE t1
        t3 == IF Truthy(Get(security, "is_tor", PyFalse))
              THEN Append(t2, "Tor") ELSE t2
        threats == IF Truthy(Get(security, "is_relay", PyFalse))
                   THEN Append(t3, "Relay") ELSE t3
    IN  IF Len(threats) = 0 THEN PyStr(<<"Clean">>)
        ELSE IF Len(threats) = 1
             THEN PyStr(<<"Low (", threats[1], " detected)">>)
        ELSE IF Len(threats) = 2
             THEN PyStr(<<"Medium (Multiple: ">> \o Join(threats) \o <<")">>)
        ELSE PyStr(<<"High (Multiple: ">> \o Join(threats) \o <<")">>)

\* _assess_threat_level counting a flag only when it is the boolean True
_assess_threat_level_only_true(security) ==
    LET t1 == IF Get(security, "is_vpn", PyFalse) = PyTrue THEN <<"VPN">> ELSE <<>>
        t2 == IF Get(security, "is_proxy", PyFalse) = PyTrue
              THEN Append(t1, "Proxy") ELSE t1
        t3 == IF Get(security, "is_tor", PyFalse) = PyTrue
              THEN Append(t2, "Tor") ELSE t2
        threats == IF Get(security, "is_relay", PyFalse) = PyTrue
                   THEN Append(t3, "Relay") ELSE t3
    IN  IF Len(threats) = 0 THEN PyStr(<<"Clean">>)
        ELSE IF Len(threats) = 1
             THEN PyStr(<<"Low (", threats[1], " detected)">>)
        ELSE PyStr(<<"Medium (Multiple: ">> \o Join(threats) \o <<")">>)

_assess_threat_level(security) ==
    LET t1 == IF Truthy(Get(security, "is_vpn", PyFalse)) THEN <<"VPN">> ELSE <<>>
        t2 == IF Truthy(Get(security, "is_proxy", PyFalse))
              THEN Append(t1, "Proxy") ELSE t1
        t3 == IF Truthy(Get(security, "is_tor", PyFalse))
              THEN Append(t2, "Tor") ELSE t2
        threats == IF Truthy(Get(security, "is_relay", PyFalse))
                   THEN Append(t3, "Relay") ELSE t3
    IN  IF Len(threats) = 0 THEN PyStr(<<"Clean">>)
        ELSE IF Len(threats) = 1
             THEN PyStr(<<"Low (", threats[1], " detected)">>)
        ELSE PyStr(<<"Medium (Multiple: ">> \o Join(threats) \o <<")">>)

extract_security_info(data) ==
    LET security == Get(data, "security", EmptyDict)
    IN  IF security.t # "dict" THEN Raise("AttributeError")
        ELSE Ok(PyDict(
              ("Is VPN" :> Get(security, "is_vpn", PyFalse))
           @@ ("Is Proxy" :> _check_proxy(security))
           @@ ("Is Tor" :> _check_tor(security))
           @@ ("Is Relay" :> _check_relay(security))
           @@ ("Threat Level" :> _assess_threat_level(security))))

\* extract_currency_info with an empty text as the default of the symbol
extract_currency_info_empty_default(data) ==
    LET currency == Get(data, "currency", EmptyDict)
    IN  IF currency.t # "dict" THEN Raise("AttributeError")
        ELSE Ok(PyDict(
              ("Currency Name" :> Get(currency, "currency_name", NA))
           @@ ("Currency Code" :> Get(currency, "currency_code", NA))
           @@ ("Currency Symbol" :> Get(currency, "currency_symbol", PyStr(<<>>)))))

extract_currency_info(data) ==
    LET currency == Get(data, "currency", EmptyDict)
    IN  IF currency.t # "dict" THEN Raise("AttributeError")
        ELSE Ok(PyDict(
              ("Currency Name" :> Get(currency, "currency_name", NA))
           @@ ("Currency Code" :> Get(currency, "currency_code", NA))
           @@ ("Currency Symbol" :> Get(currency, "currency_symbol", NA))))

extract_flag_info(data) ==
    LET flag == Get(data, "flag", EmptyDict)
    IN  IF flag.t # "dict" THEN Raise("AttributeError")
        ELSE Ok(PyDict(
              ("Flag Emoji" :> Get(flag, "emoji", NA))
           @@ ("Flag Unicode" :> Get(flag, "unicode", NA))
           @@ ("Flag PNG" :> Get(flag, "png", NA))
           @@ ("Flag SVG" :> Get(flag, "svg", NA))))

\* The dict display of process_all_data evaluates its six values in order;
\* the first exception raised propagates.
process_all_data(data) ==
    IF ~validate_response(data) THEN Ok(EmptyDict)
    ELSE LET basic == extract_basic_info(data)
             connection == extract_connection_info(data)
             timezone == extract_timezone_info(data)
             security == extract_security_info(data)
             currency == extract_currency_info(data)
             flag == extract_flag_info(data)
         IN  IF basic.exc # "" THEN basic
             ELSE IF connection.exc # "" THEN connection
             ELSE IF timezone.exc # "" THEN timezone
             ELSE IF security.exc # "" THEN security
             ELSE IF currency.exc # "" THEN currency
             ELSE IF flag.exc # "" THEN flag
             ELSE Ok(PyDict(
                   ("basic" :> basic.val)
                @@ ("connection" :> connection.val)
                @@ ("timezone" :> timezone.val)
                @@ ("security" :> security.val)
                @@ ("currency" :> currency.val)
                @@ ("flag" :> flag.val)))

----------------------------------------------------------------------------
(* AbstractAPIClient *)

\* What requests.get does: it returns a response (a status code and a body
\* that parses as JSON), or raises.  "Timeout", "ConnectionError" and
\* "RequestException" are the classes of requests.exceptions; "Exception" is
\* any exception that is no RequestException.
Net(kind, status, body) == [kind |-> kind, status |-> status, body |-> body]

NoNet == Net("none", 0, PyNone)
NoCall == [method |-> "", net |-> NoNet, gets |-> 0]

MsgUnauthorized == <<"Error: Invalid API key. Please check your credentials.">>
MsgRateLimited == <<"Error: API rate limit exceeded. Please try again later.">>
\* MsgStatus without the status code
MsgStatus_no_code(status_code) == <<"Error: API returned status code ">>

MsgStatus(status_code) ==
    <<"Error: API returned status code ">> \o NatToStr(status_code)
MsgInvalidInput == <<"Error: Invalid IP address format.">>
MsgInvalidAddress(ip_address) ==
    <<"Error: Invalid IP address format: ">> \o ip_address.s
MsgTimeout ==
    <<"Error: Request timed out. Please check your internet connection.">>
MsgConnection ==
    <<"Error: Could not connect to API. Please check your internet connection.">>
MsgUnexpected(e) == <<"Error: An unexpected error occurred: ", e>>

\* the outcome of a method: what it returns or raises, what it prints, and
\* how many GETs it issued
Done(out, msg, gets) == [out |-> out, msg |-> msg, gets |-> gets]

\* LookupExcept with a second GET after a timeout
LookupExcept_retry_timeout(net) ==
    IF net.kind = "Timeout" THEN Done(Ok(PyNone), MsgTimeout, 2)
    ELSE IF net.kind = "ConnectionError" THEN Done(Ok(PyNone), MsgConnection, 1)
    ELSE IF net.kind = "RequestException"
         THEN Done(Ok(PyNone), MsgUnexpected(net.kind), 1)
    ELSE Done(Raise(net.kind), <<>>, 1)

\* the except clauses shared by the two lookups
LookupExcept(net) ==
    IF net.kind = "Timeout" THEN Done(Ok(PyNone), MsgTimeout, 1)
    ELSE IF net.kind = "ConnectionError" THEN Done(Ok(PyNone), MsgConnection, 1)
    ELSE IF net.kind = "RequestException"
         THEN Done(Ok(PyNone), MsgUnexpected(net.kind), 1)
    ELSE Done(Raise(net.kind), <<>>, 1)

\* get_current_ip_info with the 422 branch of get_specific_ip_info
get_current_ip_info_with_422(net) ==
    IF net.kind = "response"
    THEN IF net.status = 200 THEN Done(Ok(net.body), <<>>, 1)
         ELSE IF net.status = 422
              THEN Done(Ok(PyNone), MsgInvalidAddress(PyStr(<<>>)), 1)
         ELSE IF net.status = 401 THEN Done(Ok(PyNone), MsgUnauthorized, 1)
         ELSE IF net.status = 429 THEN Done(Ok(PyNone), MsgRateLimited, 1)
         ELSE Done(Ok(PyNone), MsgStatus(net.status), 1)
    ELSE LookupExcept(net)

get_current_ip_info(net) ==
    IF net.kind = "response"
    THEN IF net.status = 200 THEN Done(Ok(net.body), <<>>, 1)
         ELSE IF net.status = 401 THEN Done(Ok(PyNone), MsgUnauthorized, 1)
         ELSE IF net.status = 429 THEN Done(Ok(PyNone), MsgRateLimited, 1)
         ELSE Done(Ok(PyNone), MsgStatus(net.status), 1)
    ELSE LookupExcept(net)

\* get_specific_ip_info with the check of the argument after the GET
get_specific_ip_info_check_after_get(ip_address, net) ==
    IF ~Truthy(ip_address) \/ ip_address.t # "str"
    THEN Done(Ok(PyNone), MsgInvalidInput, 1)
    ELSE IF net.kind = "response"
    THEN IF net.status = 200 THEN Done(Ok(net.body), <<>>, 1)
         ELSE IF net.status = 422
              THEN Done(Ok(PyNone), MsgInvalidAddress(ip_address), 1)
         ELSE IF net.status = 401 THEN Done(Ok(PyNone), MsgUnauthorized, 1)
         ELSE IF net.status = 429 THEN Done(Ok(PyNone), MsgRateLimited, 1)
         ELSE Done(Ok(PyNone), MsgStatus(net.status), 1)
    ELSE LookupExcept(net)

get_specific_ip_info(ip_address, net) ==
    IF ~Truthy(ip_address) \/ ip_address.t # "str"
    THEN Done(Ok(PyNone), MsgInvalidInput, 0)
    ELSE IF net.kind = "response"
    THEN IF net.status = 200 THEN Done(Ok(net.body), <<>>, 1)
         ELSE IF net.status = 422
              THEN Done(Ok(PyNone), MsgInvalidAddress(ip_address), 1)
         ELSE IF net.status = 401 THEN Done(Ok(PyNone), MsgUnauthorized, 1)
         ELSE IF net.status = 429 THEN Done(Ok(PyNone), MsgRateLimited, 1)
         ELSE Done(Ok(PyNone), MsgStatus(net.status), 1)
    ELSE LookupExcept(net)

\* test_connection catching RequestException only
test_connection_transport_only(net) ==
    IF net.kind = "response"
    THEN IF net.status = 200
         THEN Done(Ok(PyTrue), <<"API connection successful!">>, 1)
         ELSE Done(Ok(PyFalse),
                   <<"API connection failed with status code: ">>
                       \o NatToStr(net.status), 1)
    ELSE IF net.kind = "Exception" THEN Done(Raise(net.kind), <<>>, 1)
    ELSE Done(Ok(PyFalse), <<"Connection test failed: ", net.kind>>, 1)

test_connection(net) ==
    IF net.kind = "response"
    THEN IF net.status = 200
         THEN Done(Ok(PyTrue), <<"API connection successful!">>, 1)
         ELSE Done(Ok(PyFalse),
                   <<"API connection failed with status code: ">>
                       \o NatToStr(net.status), 1)
    ELSE Done(Ok(PyFalse), <<"Connection test failed: ", net.kind>>, 1)

----------------------------------------------------------------------------
(* The front ends: values shared by main.py and app.py *)

\* a web response: the status code and the JSON body (a dict)
Reply(status, body) == [status |-> status, body |-> body]

NoReply == Reply(0, EmptyDict)

\* no front end runs: the transformer and the adapter are used on their own,
\* the adapter having been constructed with a key
NoFrontEnd ==
    /\ frontend = "none"
    /\ api_key = PyStr(<<"test_api_key_12345">>)
    /\ api_client = "ready"
    /\ pc = "none"
    /\ running = FALSE
    /\ slot = PyNone
    /\ screen = <<>>
    /\ prompts = <<>>
    /\ files = <<>>
    /\ sent = PyNone
    /\ reply = NoReply

\* AbstractAPIClient.__init__ rejecting only an unset key
AbstractAPIClient__init___unset_only(key) ==
    IF key = PyNone THEN Raise("ValueError") ELSE Ok(PyNone)

\* AbstractAPIClient.__init__: os.getenv gives None or a string
AbstractAPIClient__init__(key) ==
    IF ~Truthy(key) THEN Raise("ValueError") ELSE Ok(PyNone)

\* str.strip(): white space occurs in a text only as the one-character
\* token " "
RECURSIVE lstrip(_)
lstrip(s) == IF s # <<>> /\ Head(s) = " " THEN lstrip(Tail(s)) ELSE s

RECURSIVE rstrip(_)
rstrip(s) ==
    IF s # <<>> /\ s[Len(s)] = " " THEN rstrip(SubSeq(s, 1, Len(s) - 1)) ELSE s

strip(x) == PyStr(rstrip(lstrip(x.s)))

\* the adapter was not called
NoFetch == Done(Ok(PyNone), <<>>, 0)

----------------------------------------------------------------------------
(* IPInfoApp (main.py): each handler gives the new last_processed_data,    *)
(* what it prints, the inputs it asks for, the files it writes, what it    *)
(* returns or raises, and the adapter call it made                         *)

CliStep(last_processed_data, shown, asked, written, out, fetched, passed) ==
    [slot |-> last_processed_data, screen |-> shown, prompts |-> asked,
     files |-> written, out |-> out, fetched |-> fetched, sent |-> passed]

print_error(message) == <<"ERROR: ">> \o message
print_success(message) == message
print_warning(message) == <<"WARNING: ">> \o message

NoDataWarning ==
    print_warning(<<"No data available. Please fetch IP information first (Option 1 or 2).">>)

\* display_all_info prints the report of the data; the report is modelled
\* by its header
display_all_info(processed_data) == <<"IP ADDRESS INFORMATION REPORT">>

display_table_format(processed_data) ==
    <<"IP ADDRESS INFORMATION (TABLE VIEW)">>

\* IPInfoApp.get_current_ip_info (option 1)
IPInfoApp_get_current_ip_info(last_processed_data, net) ==
    LET fetched == get_current_ip_info(net)
        raw_data == fetched.out.val
        banner == <<"Fetching your current IP information...">>
    IN  IF fetched.out.exc # ""
        THEN CliStep(last_processed_data, banner, <<>>, <<>>, fetched.out,
                     fetched, PyNone)
        ELSE IF Truthy(raw_data)
        THEN LET processed == process_all_data(raw_data)
             IN  IF processed.exc # ""
                 THEN CliStep(last_processed_data, banner, <<>>, <<>>,
                              processed, fetched, PyNone)
                 ELSE IF Truthy(processed.val)
                 THEN CliStep(processed.val,
                              banner \o display_all_info(processed.val)
                                  \o print_success(<<"Information retrieved successfully!">>),
                              <<>>, <<>>, Ok(PyNone), fetched, PyNone)
                 ELSE CliStep(processed.val,
                              banner \o print_error(<<"Failed to process API response.">>),
                              <<>>, <<>>, Ok(PyNone), fetched, PyNone)
        ELSE CliStep(last_processed_data,
                     banner \o print_error(<<"Failed to retrieve IP information.">>),
                     <<>>, <<>>, Ok(PyNone), fetched, PyNone)

\* IPInfoApp.lookup_specific_ip (option 2); `typed` is the line entered
IPInfoApp_lookup_specific_ip(last_processed_data, typed, net) ==
    LET ip_address == strip(typed)
        asked == <<"Enter IP address: ">>
        title == <<"IP Address Lookup">>
        banner == title \o <<"Fetching information for ">> \o ip_address.s
        fetched == get_specific_ip_info(ip_address, net)
        raw_data == fetched.out.val
    IN  IF ~Truthy(ip_address)
        THEN CliStep(last_processed_data,
                     title \o print_error(<<"No IP address provided.">>),
                     asked, <<>>, Ok(PyNone), NoFetch, PyNone)
        ELSE IF fetched.out.exc # ""
        THEN CliStep(last_processed_data, banner, asked, <<>>, fetched.out,
                     fetched, ip_address)
        ELSE IF Truthy(raw_data)
        THEN LET processed == process_all_data(raw_data)
             IN  IF processed.exc # ""
                 THEN CliStep(last_processed_data, banner, asked, <<>>,
                              processed, fetched, ip_address)
                 ELSE IF Truthy(processed.val)
                 THEN CliStep(processed.val,
                              banner \o display_all_info(processed.val)
                                  \o print_success(<<"Information retrieved successfully!">>),
                              asked, <<>>, Ok(PyNone), fetched, ip_address)
                 ELSE CliStep(processed.val,
                              banner \o print_error(<<"Failed to process API response.">>),
                              asked, <<>>, Ok(PyNone), fetched, ip_address)
        ELSE CliStep(last_processed_data,
                     banner \o print_error(<<"Failed to retrieve information for ">>
                                              \o ip_address.s \o <<".">>),
                     asked, <<>>, Ok(PyNone), fetched, ip_address)

\* IPInfoApp.display_table_format (option 3)
\* display_table_format without the test of the slot
IPInfoApp_display_table_format_no_guard(last_processed_data) ==
    CliStep(last_processed_data, display_table_format(last_processed_data),
            <<>>, <<>>, Ok(PyNone), NoFetch, PyNone)

IPInfoApp_display_table_format(last_processed_data) ==
    IF ~Truthy(last_processed_data)
    THEN CliStep(last_processed_data, NoDataWarning, <<>>, <<>>, Ok(PyNone),
                 NoFetch, PyNone)
    ELSE CliStep(last_processed_data, display_table_format(last_processed_data),
                 <<>>, <<>>, Ok(PyNone), NoFetch, PyNone)

\* json.dump(obj, f, indent=4, ensure_ascii=False): the text written, as
\* tokens.  In a text the characters '"', '\' and the newline occur only as
\* one-character tokens; every other token stands for ordinary characters.

\* the string escapes of json.dump without ensure_ascii
Escape(token) ==
    CASE token = "\"" -> <<"\\", "\"">>
      [] token = "\\" -> <<"\\", "\\">>
      [] token = "\n" -> <<"\\", "n">>
      [] OTHER -> <<token>>

RECURSIVE Escaped(_)
Escaped(text) ==
    IF text = <<>> THEN <<>> ELSE Escape(Head(text)) \o Escaped(Tail(text))

\* a JSON string: the text between double quotes, escaped
Quoted(text) == <<"\"">> \o Escaped(text) \o <<"\"">>

\* a newline and the indentation of a nesting depth (indent=4)
NewLine(depth) == <<"\n">> \o [i \in 1..depth |-> "    "]

RECURSIVE json_dumps(_, _)
RECURSIVE DumpMembers(_, _, _)
RECURSIVE DumpElements(_, _)

\* the keys of the mappings the transformer builds, in the order its dict
\* displays insert them: the categories, then the labels of each category
InsertionOrder ==
    <<"basic", "connection", "timezone", "security", "currency", "flag",
      "IP Address", "IP Version", "City", "Region", "Country", "Country Code",
      "Continent", "Postal Code", "Latitude", "Longitude",
      "ISP", "Organization", "ASN", "ASN Organization", "Connection Type",
      "Timezone Name", "Abbreviation", "GMT Offset", "Current Time", "Is DST",
      "Is VPN", "Is Proxy", "Is Tor", "Is Relay", "Threat Level",
      "Currency Name", "Currency Code", "Currency Symbol",
      "Flag Emoji", "Flag Unicode", "Flag PNG", "Flag SVG">>

\* the key a loop over a dict visits first among `keys`: the earliest
\* inserted one (a mapping passed through from the response keeps the order
\* of the response, which is not part of its value here)
FirstKey(keys) ==
    LET known == {i \in DOMAIN InsertionOrder : InsertionOrder[i] \in keys}
    IN  IF known = {} THEN CHOOSE key \in keys : TRUE
        ELSE InsertionOrder[CHOOSE i \in known : \A j \in known : i <= j]

\* the members of the dict x under the keys `keys`, one per line
DumpMembers(x, keys, depth) ==
    IF keys = {} THEN <<>>
    ELSE LET k == FirstKey(keys)
         IN  NewLine(depth) \o Quoted(<<k>>) \o <<":", " ">>
                 \o json_dumps(x.d[k], depth)
                 \o (IF keys = {k} THEN <<>> ELSE <<",">>)
                 \o DumpMembers(x, keys \ {k}, depth)

\* the elements of a list of texts, one per line
DumpElements(elements, depth) ==
    IF elements = <<>> THEN <<>>
    ELSE NewLine(depth) \o Quoted(<<Head(elements)>>)
             \o (IF Len(elements) = 1 THEN <<>> ELSE <<",">>)
             \o DumpElements(Tail(elements), depth)

\* the JSON text of the value x at a nesting depth
json_dumps(x, depth) ==
    CASE x.t = "str" -> Quoted(x.s)
      [] x.t = "int" ->
            IF x.n < 0 THEN <<"-">> \o NatToStr(-x.n) ELSE NatToStr(x.n)
      [] x.t = "bool" -> IF x.n # 0 THEN <<"true">> ELSE <<"false">>
      [] x.t = "none" -> <<"null">>
      [] x.t = "list" ->
            IF x.s = <<>> THEN <<"[", "]">>
            ELSE <<"[">> \o DumpElements(x.s, depth + 1) \o NewLine(depth)
                     \o <<"]">>
      [] x.t = "dict" ->
            IF DOMAIN x.d = {} THEN <<"{", "}">>
            ELSE <<"{">> \o DumpMembers(x, DOMAIN x.d, depth + 1)
                     \o NewLine(depth) \o <<"}">>

json_dump(processed_data) == json_dumps(processed_data, 0)

\* save_to_file / save_to_text: the name is generated from the clock when none
\* is given; `disk` says whether the file could be opened and written
SavedName(filename, kind) ==
    IF filename = PyNone
    THEN <<"ip_info_", "timestamp", IF kind = "json" THEN ".json" ELSE ".txt">>
    ELSE filename.s

\* a file on disk: its name and the text written into it
File(filename, kind, text) ==
    [name |-> SavedName(filename, kind), kind |-> kind, text |-> text]

\* a character the utf-8 codec refuses ("surrogates not allowed"): json.loads
\* accepts an unpaired surrogate escape and ensure_ascii=False writes it as is
LoneSurrogate == "<lone surrogate>"

Encodable(text) == \A i \in DOMAIN text : text[i] # LoneSurrogate

\* what a text file opened with encoding='utf-8' holds once closed: json.dump
\* writes a string literal in one piece, and the piece that cannot be encoded
\* raises UnicodeEncodeError while the pieces before it stay written
\* (`start` is where the literal being read began)
RECURSIVE Flushed(_, _, _, _)
Flushed(text, i, start, inside) ==
    IF i > Len(text) THEN text
    ELSE IF text[i] = LoneSurrogate THEN SubSeq(text, 1, start - 1)
    ELSE IF inside /\ text[i] = "\\" THEN Flushed(text, i + 2, start, TRUE)
    ELSE IF text[i] = "\"" THEN Flushed(text, i + 1, i, ~inside)
    ELSE Flushed(text, i + 1, start, inside)

save_to_file(processed_data, filename, disk) ==
    LET text == json_dump(processed_data)
    IN  IF disk # "ok"
        THEN [files |-> <<>>, screen |-> <<"Error saving file: ", disk>>,
              out |-> PyNone]
        ELSE IF ~Encodable(text)
        THEN [files |-> <<File(filename, "json", Flushed(text, 1, 1, FALSE))>>,
              screen |-> <<"Error saving file: ", "UnicodeEncodeError">>,
              out |-> PyNone]
        ELSE [files |-> <<File(filename, "json", text)>>,
              screen |-> <<"Data saved successfully to: ">>
                             \o SavedName(filename, "json"),
              out |-> PyStr(SavedName(filename, "json"))]

\* the lines save_to_text writes for the fields of one category:
\* f"{key:.<25} {value}\n"
RECURSIVE ReportFields(_, _)
ReportFields(data, keys) ==
    IF keys = {} THEN <<>>
    ELSE LET key == FirstKey(keys)
         IN  <<key>> \o [i \in 1..(25 - Len(key)) |-> "."] \o <<" ">>
                 \o str(data.d[key]).s \o <<"\n">>
                 \o ReportFields(data, keys \ {key})

\* category.upper()
upper(category) ==
    CASE category = "basic" -> "BASIC"
      [] category = "connection" -> "CONNECTION"
      [] category = "timezone" -> "TIMEZONE"
      [] category = "security" -> "SECURITY"
      [] category = "currency" -> "CURRENCY"
      [] category = "flag" -> "FLAG"

\* the sections save_to_text writes for the categories
RECURSIVE ReportSections(_, _)
ReportSections(processed_data, categories) ==
    IF categories = {} THEN <<>>
    ELSE LET category == FirstKey(categories)
             data == processed_data.d[category]
         IN  (IF data.t = "dict"
              THEN <<"\n", "> ", upper(category), "\n">>
                       \o [i \in 1..60 |-> "-"] \o <<"\n">>
                       \o ReportFields(data, DOMAIN data.d)
              ELSE <<>>)
                 \o ReportSections(processed_data, categories \ {category})

\* the text save_to_text writes
text_report(processed_data) ==
    [i \in 1..80 |-> "="] \o <<"\n", "IP ADDRESS INFORMATION REPORT", "\n">>
        \o [i \in 1..80 |-> "="] \o <<"\n", "\n">>
        \o ReportSections(processed_data, DOMAIN processed_data.d)
        \o <<"\n">> \o [i \in 1..80 |-> "="] \o <<"\n">>
        \o <<"Report generated at: ", "timestamp", "\n">>

save_to_text(processed_data, filename, disk) ==
    IF disk = "ok"
    THEN [files |-> <<File(filename, "text", text_report(processed_data))>>,
          screen |-> <<"Data saved successfully to: ">>
                         \o SavedName(filename, "text")]
    ELSE [files |-> <<>>, screen |-> <<"Error saving file: ", disk>>]

\* IPInfoApp.save_last_result (option 4); save_choice and filename_base are
\* the two lines entered, already stripped
IPInfoApp_save_last_result_slot_consumed(last_processed_data, save_choice, filename_base, disk) ==
    LET as_json == save_to_file(last_processed_data, PyNone, disk)
    IN  IF ~Truthy(last_processed_data)
        THEN CliStep(last_processed_data, NoDataWarning, <<>>, <<>>,
                     Ok(PyNone), NoFetch, PyNone)
        ELSE CliStep(EmptyDict, <<"Save Options">> \o as_json.screen,
                     <<"Enter choice (1-3): ",
                       "Enter filename (press Enter for auto-generated): ">>,
                     as_json.files, Ok(PyNone), NoFetch, PyNone)

IPInfoApp_save_last_result(last_processed_data, save_choice, filename_base, disk) ==
    LET asked == <<"Enter choice (1-3): ",
                   "Enter filename (press Enter for auto-generated): ">>
        menu == <<"Save Options">>
        json_file == IF Truthy(filename_base)
                     THEN PyStr(filename_base.s \o <<".json">>) ELSE PyNone
        text_file == IF Truthy(filename_base)
                     THEN PyStr(filename_base.s \o <<".txt">>) ELSE PyNone
        as_json == save_to_file(last_processed_data, json_file, disk)
        as_text == save_to_text(last_processed_data, text_file, disk)
    IN  IF ~Truthy(last_processed_data)
        THEN CliStep(last_processed_data, NoDataWarning, <<>>, <<>>,
                     Ok(PyNone), NoFetch, PyNone)
        ELSE IF save_choice.s = <<"1">>
        THEN CliStep(last_processed_data, menu \o as_json.screen, asked,
                     as_json.files, Ok(PyNone), NoFetch, PyNone)
        ELSE IF save_choice.s = <<"2">>
        THEN CliStep(last_processed_data, menu \o as_text.screen, asked,
                     as_text.files, Ok(PyNone), NoFetch, PyNone)
        ELSE IF save_choice.s = <<"3">>
        THEN CliStep(last_processed_data,
                     menu \o as_json.screen \o as_text.screen, asked,
                     as_json.files \o as_text.files, Ok(PyNone), NoFetch,
                     PyNone)
        ELSE CliStep(last_processed_data,
                     menu \o print_error(<<"Invalid choice.">>), asked, <<>>,
                     Ok(PyNone), NoFetch, PyNone)

\* IPInfoApp.test_api_connection (option 5)
IPInfoApp_test_api_connection(last_processed_data, net) ==
    LET fetched == test_connection(net)
        banner == <<"Testing API connection...">>
    IN  IF fetched.out.exc # ""
        THEN CliStep(last_processed_data, banner, <<>>, <<>>, fetched.out,
                     fetched, PyNone)
        ELSE IF Truthy(fetched.out.val)
        THEN CliStep(last_processed_data,
                     banner \o print_success(<<"API connection is working properly!">>),
                     <<>>, <<>>, Ok(PyNone), fetched, PyNone)
        ELSE CliStep(last_processed_data,
                     banner \o print_error(<<"API connection failed. Please check your API key and internet connection.">>),
                     <<>>, <<>>, Ok(PyNone), fetched, PyNone)

----------------------------------------------------------------------------
(* The web application (app.py): each endpoint gives the response, the     *)
(* adapter call it made and the address it passed to the adapter           *)

WebStep(answer, fetched, passed) ==
    [reply |-> answer, fetched |-> fetched, sent |-> passed]

\* jsonify({'error': message}), status
ErrorReply(status, message) == Reply(status, PyDict("error" :> PyStr(message)))

\* jsonify({'success': True, 'data': processed_data}): status 200
DataReply(processed_data) ==
    Reply(200, PyDict(("success" :> PyTrue) @@ ("data" :> processed_data)))

\* the endpoints without the test of api_client: calling a method of None
\* raises AttributeError, which the except clause answers
NotInitialized_caught_later ==
    ErrorReply(500, <<"An error occurred: ", "AttributeError">>)

NotInitialized ==
    ErrorReply(500, <<"API client not initialized. Check your API key.">>)

\* no except clause: the framework answers 500 with its own HTML page
Caught_by_framework(e) == Reply(500, PyStr(<<"Internal Server Error">>))

\* the except clause of the three endpoints
Caught(e) == ErrorReply(500, <<"An error occurred: ", e>>)

\* get_current_ip answering success whatever process_all_data returns
get_current_ip_no_empty_check(client, net) ==
    LET fetched == get_current_ip_info(net)
        raw_data == fetched.out.val
    IN  IF client # "ready" THEN WebStep(NotInitialized, NoFetch, PyNone)
        ELSE IF fetched.out.exc # ""
        THEN WebStep(Caught(fetched.out.exc), fetched, PyNone)
        ELSE IF Truthy(raw_data)
        THEN LET processed_data == process_all_data(raw_data)
             IN  IF processed_data.exc # ""
                 THEN WebStep(Caught(processed_data.exc), fetched, PyNone)
                 ELSE WebStep(DataReply(processed_data.val), fetched, PyNone)
        ELSE WebStep(ErrorReply(500, <<"Failed to retrieve IP information">>),
                     fetched, PyNone)

\* GET /api/current-ip
get_current_ip(client, net) ==
    LET fetched == get_current_ip_info(net)
        raw_data == fetched.out.val
    IN  IF client # "ready" THEN WebStep(NotInitialized, NoFetch, PyNone)
        ELSE IF fetched.out.exc # ""
        THEN WebStep(Caught(fetched.out.exc), fetched, PyNone)
        ELSE IF Truthy(raw_data)
        THEN LET processed_data == process_all_data(raw_data)
             IN  IF processed_data.exc # ""
                 THEN WebStep(Caught(processed_data.exc), fetched, PyNone)
                 ELSE IF Truthy(processed_data.val)
                 THEN WebStep(DataReply(processed_data.val), fetched, PyNone)
                 ELSE WebStep(ErrorReply(500, <<"Failed to process API response">>),
                              fetched, PyNone)
        ELSE WebStep(ErrorReply(500, <<"Failed to retrieve IP information">>),
                     fetched, PyNone)

\* lookup_ip with the empty address passed on to the adapter
lookup_ip_no_empty_check(client, data, net) ==
    LET given == Get(data, "ip_address", PyStr(<<>>))
        ip_address == strip(given)
        fetched == get_specific_ip_info(ip_address, net)
        raw_data == fetched.out.val
    IN  IF client # "ready" THEN WebStep(NotInitialized, NoFetch, PyNone)
        ELSE IF data.t # "dict" \/ given.t # "str"
        THEN WebStep(Caught("AttributeError"), NoFetch, PyNone)
        ELSE IF Truthy(raw_data)
        THEN WebStep(DataReply(process_all_data(raw_data).val), fetched,
                     ip_address)
        ELSE WebStep(ErrorReply(500, <<"Failed to retrieve information for ">>
                                         \o ip_address.s),
                     fetched, ip_address)

\* POST /api/lookup-ip; `data` is what request.get_json() returns
lookup_ip(client, data, net) ==
    LET given == Get(data, "ip_address", PyStr(<<>>))
        ip_address == strip(given)
        fetched == get_specific_ip_info(ip_address, net)
        raw_data == fetched.out.val
    IN  IF client # "ready" THEN WebStep(NotInitialized, NoFetch, PyNone)
        ELSE IF data.t # "dict" \/ given.t # "str"
        THEN WebStep(Caught("AttributeError"), NoFetch, PyNone)
        ELSE IF ~Truthy(ip_address)
        THEN WebStep(ErrorReply(400, <<"No IP address provided">>), NoFetch,
                     PyNone)
        ELSE IF fetched.out.exc # ""
        THEN WebStep(Caught(fetched.out.exc), fetched, ip_address)
        ELSE IF Truthy(raw_data)
        THEN LET processed_data == process_all_data(raw_data)
             IN  IF processed_data.exc # ""
                 THEN WebStep(Caught(processed_data.exc), fetched, ip_address)
                 ELSE IF Truthy(processed_data.val)
                 THEN WebStep(DataReply(processed_data.val), fetched,
                              ip_address)
                 ELSE WebStep(ErrorReply(500, <<"Failed to process API response">>),
                              fetched, ip_address)
        ELSE WebStep(ErrorReply(500, <<"Failed to retrieve information for ">>
                                         \o ip_address.s),
                     fetched, ip_address)

\* app.py's test_connection answering a failed connection with the error
\* envelope
app_test_connection_error_envelope(client, net) ==
    LET fetched == test_connection(net)
        success == fetched.out.val
    IN  IF client # "ready" THEN WebStep(NotInitialized, NoFetch, PyNone)
        ELSE IF fetched.out.exc # ""
        THEN WebStep(Caught(fetched.out.exc), fetched, PyNone)
        ELSE IF Truthy(success)
        THEN WebStep(Reply(200, PyDict(("success" :> PyTrue)
                                @@ ("message" :> PyStr(<<"API connection successful!">>)))),
                     fetched, PyNone)
        ELSE WebStep(ErrorReply(500, <<"API connection failed">>), fetched,
                     PyNone)

\* GET /api/test-connection
app_test_connection(client, net) ==
    LET fetched == test_connection(net)
        success == fetched.out.val
    IN  IF client # "ready" THEN WebStep(NotInitialized, NoFetch, PyNone)
        ELSE IF fetched.out.exc # ""
        THEN WebStep(Caught(fetched.out.exc), fetched, PyNone)
        ELSE IF Truthy(success)
        THEN WebStep(Reply(200, PyDict(("success" :> PyTrue)
                                @@ ("message" :> PyStr(<<"API connection successful!">>)))),
                     fetched, PyNone)
        ELSE WebStep(Reply(500, PyDict(("success" :> PyFalse)
                                @@ ("message" :> PyStr(<<"API connection failed">>)))),
                     fetched, PyNone)

----------------------------------------------------------------------------
(* The raw responses drawn *)

IpAlphabet == {":", ".", "8"}

\* every text over IpAlphabet of at most MaxIpLen tokens
IpStrings == UNION {[1..n -> IpAlphabet] : n \in 0..MaxIpLen}

\* what else a JSON body can hold under ip_address
NonStringIps ==
    {PyInt(8), PyNone, PyTrue, EmptyDict, PyDict(":" :> PyInt(1)),
     PyList(<<>>), PyList(<<".">>)}

IpValues == {PyStr(s) : s \in IpStrings} \cup NonStringIps

Text(w) == PyStr(<<w>>)

TopScalarKeys ==
    {"city", "region", "country", "country_code", "continent", "postal_code",
     "latitude", "longitude"}

GroupKeys == {"connection", "timezone", "security", "currency", "flag"}

OptionalKeys == TopScalarKeys \cup GroupKeys

SecurityFlags == {"is_vpn", "is_proxy", "is_tor", "is_relay"}

SampleConnection ==
    PyDict(("isp_name" :> Text("Google LLC"))
        @@ ("organization_name" :> Text("Google Public DNS"))
        @@ ("autonomous_system_number" :> PyInt(15169))
        @@ ("autonomous_system_organization" :> Text("GOOGLE"))
        @@ ("connection_type" :> Text("Corporate")))

\* (the fixture's current_time is passed through unread; its colons are
\* written as dashes to keep the convention on ":" tokens)
SampleTimezone ==
    PyDict(("name" :> Text("America/Los_Angeles"))
        @@ ("abbreviation" :> Text("PST"))
        @@ ("gmt_offset" :> PyInt(-8))
        @@ ("current_time" :> Text("2025-11-24T10-30-00"))
        @@ ("is_dst" :> PyFalse))

SampleSecurity ==
    PyDict(("is_vpn" :> PyFalse) @@ ("is_proxy" :> PyFalse)
        @@ ("is_tor" :> PyFalse) @@ ("is_relay" :> PyFalse))

SampleCurrency ==
    PyDict(("currency_name" :> Text("US Dollar"))
        @@ ("currency_code" :> Text("USD"))
        @@ ("currency_symbol" :> Text("$")))

SampleFlag ==
    PyDict(("emoji" :> Text("flag")) @@ ("unicode" :> Text("U+1F1FA"))
        @@ ("png" :> Text("us-png")) @@ ("svg" :> Text("us-svg")))

SampleIp == PyStr(<<"8", ".", "8", ".", "8", ".", "8">>)

\* the response of the test suite's fixture (numbers are modelled by integers)
SampleResponse ==
    PyDict(("ip_address" :> SampleIp)
        @@ ("city" :> Text("Mountain View"))
        @@ ("region" :> Text("California"))
        @@ ("country" :> Text("United States"))
        @@ ("country_code" :> Text("US"))
        @@ ("continent" :> Text("North America"))
        @@ ("postal_code" :> Text("94035"))
        @@ ("latitude" :> PyInt(37))
        @@ ("longitude" :> PyInt(-122))
        @@ ("connection" :> SampleConnection)
        @@ ("timezone" :> SampleTimezone)
        @@ ("security" :> SampleSecurity)
        @@ ("currency" :> SampleCurrency)
        @@ ("flag" :> SampleFlag))

\* the values drawn for each optional key: present and well typed, present
\* with another JSON type, a partially filled group, a group that is no mapping
Candidates(k) ==
    CASE k \in TopScalarKeys -> {Text("x"), PyInt(-8), PyNone}
      [] k = "connection" ->
            {EmptyDict, SampleConnection,
             PyDict("isp_name" :> Text("Google LLC")),
             PyDict(("autonomous_system_number" :> PyNone)
                 @@ ("connection_type" :> PyInt(4))),
             PyNone, Text("x")}
      [] k = "timezone" ->
            {EmptyDict, SampleTimezone,
             PyDict(("gmt_offset" :> Text("+1")) @@ ("is_dst" :> PyTrue)
                 @@ ("name" :> PyNone)),
             PyInt(0), PyList(<<>>)}
      [] k = "security" ->
            {EmptyDict, PyDict("is_vpn" :> PyTrue),
             PyDict(("is_proxy" :> PyTrue) @@ ("is_relay" :> PyTrue)),
             PyNone}
      [] k = "currency" ->
            {EmptyDict, SampleCurrency, PyDict("currency_code" :> PyInt(840)),
             PyNone}
      [] k = "flag" ->
            {EmptyDict, SampleFlag, PyDict("emoji" :> Text("flag")), PyTrue}

KeyOrder ==
    <<"city", "region", "country", "country_code", "continent", "postal_code",
      "latitude", "longitude", "connection", "timezone", "security",
      "currency", "flag">>

\* the mappings holding at most MaxOptional of the first i optional keys
RECURSIVE OptionalMaps(_)
OptionalMaps(i) ==
    IF i = 0 THEN {EmptyMap}
    ELSE LET prev == OptionalMaps(i - 1)
         IN  prev \cup
             {m @@ (KeyOrder[i] :> v) :
                 m \in {p \in prev : Cardinality(DOMAIN p) < MaxOptional},
                 v \in Candidates(KeyOrder[i])}

\* the values drawn for a security flag: booleans and the other JSON scalars
FlagValues ==
    {PyTrue, PyFalse, PyInt(1), PyInt(0), Text("false"), PyStr(<<>>), PyNone}

\* every security group: each flag absent or holding one of FlagValues
SecurityDicts ==
    UNION {[S -> FlagValues] : S \in SUBSET SecurityFlags}

\* the address part of a response drawn with optional keys: none (the
\* response lacks ip_address), a text, a number
AddressParts ==
    {EmptyMap, "ip_address" :> PyStr(<<"8", ".", "8">>), "ip_address" :> PyInt(8)}

\* the raw responses drawn: no response, the fixture, every combination of
\* at most MaxOptional optional keys with and without an address, every
\* address alone, and every security group beside a well-formed address
IsRawResponse(r) ==
    \/ r \in {PyNone, SampleResponse}
    \/ \E a \in AddressParts, m \in OptionalMaps(Len(KeyOrder)) :
          r = PyDict(a @@ m)
    \/ \E ip \in IpValues : r = PyDict("ip_address" :> ip)
    \/ \E sec \in SecurityDicts :
          r = PyDict(("ip_address" :> SampleIp) @@ ("security" :> PyDict(sec)))

----------------------------------------------------------------------------
(* The transformer applied to a drawn raw response *)

Init ==
    /\ IsRawResponse(raw)
    /\ op = "init"
    /\ arg = PyNone
    /\ result = NoResult
    /\ calls = 0
    /\ printed = <<>>
    /\ last = NoCall
    /\ history = <<>>
    /\ NoFrontEnd

\* the operation `name` is applied to the raw response and ends in `outcome`
Apply(name, outcome) ==
    /\ op' = name
    /\ arg' = raw
    /\ result' = outcome
    /\ UNCHANGED <<raw, calls, printed, last, front, history>>

ValidateResponse ==
    /\ op = "init"
    /\ Apply("validate_response", Ok(PyBool(validate_response(raw))))

\* the extractors take a mapping (data: Dict)
ExtractBasicInfo ==
    /\ op = "init"
    /\ raw.t = "dict"
    /\ Apply("extract_basic_info", extract_basic_info(raw))

ExtractConnectionInfo ==
    /\ op = "init"
    /\ raw.t = "dict"
    /\ Apply("extract_connection_info", extract_connection_info(raw))

ExtractTimezoneInfo ==
    /\ op = "init"
    /\ raw.t = "dict"
    /\ Apply("extract_timezone_info", extract_timezone_info(raw))

ExtractSecurityInfo ==
    /\ op = "init"
    /\ raw.t = "dict"
    /\ Apply("extract_security_info", extract_security_info(raw))

ExtractCurrencyInfo ==
    /\ op = "init"
    /\ raw.t = "dict"
    /\ Apply("extract_currency_info", extract_currency_info(raw))

ExtractFlagInfo ==
    /\ op = "init"
    /\ raw.t = "dict"
    /\ Apply("extract_flag_info", extract_flag_info(raw))

ProcessAllData ==
    /\ op = "init"
    /\ Apply("process_all_data", process_all_data(raw))

\* _determine_ip_version on the address of the response, as
\* extract_basic_info calls it
DetermineIpVersion ==
    /\ op = "init"
    /\ raw.t = "dict"
    /\ op' = "_determine_ip_version"
    /\ arg' = Get(raw, "ip_address", PyStr(<<>>))
    /\ result' = _determine_ip_version(Get(raw, "ip_address", PyStr(<<>>)))
    /\ UNCHANGED <<raw, calls, printed, last, front, history>>

\* _assess_threat_level on the security group of the response, as
\* extract_security_info calls it (security: Dict)
AssessThreatLevel ==
    /\ op = "init"
    /\ raw.t = "dict"
    /\ Get(raw, "security", EmptyDict).t = "dict"
    /\ op' = "_assess_threat_level"
    /\ arg' = Get(raw, "security", EmptyDict)
    /\ result' = Ok(_assess_threat_level(Get(raw, "security", EmptyDict)))
    /\ UNCHANGED <<raw, calls, printed, last, front, history>>

Next ==
    \/ ValidateResponse
    \/ ExtractBasicInfo
    \/ ExtractConnectionInfo
    \/ ExtractTimezoneInfo
    \/ ExtractSecurityInfo
    \/ ExtractCurrencyInfo
    \/ ExtractFlagInfo
    \/ ProcessAllData
    \/ DetermineIpVersion
    \/ AssessThreatLevel

Spec == Init /\ [][Next]_vars

----------------------------------------------------------------------------
(* The transformer called repeatedly, on the same and on other responses *)

\* the responses passed: none, an address alone, the fixture, an address that
\* is a number (process_all_data raises)
RepeatInputs ==
    {PyNone, PyDict("ip_address" :> SampleIp), SampleResponse,
     PyDict("ip_address" :> PyInt(8))}

InitRepeat ==
    /\ raw = PyNone
    /\ op = "init"
    /\ arg = PyNone
    /\ result = NoResult
    /\ calls = 0
    /\ printed = <<>>
    /\ last = NoCall
    /\ history = <<>>
    /\ NoFrontEnd

\* Reapply with the result kept in an attribute shared by the calls: a
\* response that fails validation gets the result of the call before
Reapply_result_kept(name, data, outcome) ==
    LET earlier == {i \in DOMAIN history :
                       /\ history[i].name = "process_all_data"
                       /\ history[i].out # Ok(EmptyDict)}
        latest == CHOOSE i \in earlier : \A j \in earlier : j <= i
        out == IF name = "process_all_data" /\ outcome = Ok(EmptyDict)
                  /\ earlier # {}
               THEN history[latest].out ELSE outcome
    IN  /\ op' = name
        /\ arg' = data
        /\ raw' = data
        /\ result' = out
        /\ history' = Append(history, [name |-> name, data |-> data, out |-> out])
        /\ UNCHANGED <<calls, printed, last, front>>

\* the static method `name` is called on `data` and ends in `outcome`: `arg`
\* is the value passed, `raw` the passed object after the call (the methods
\* only read it with .get and `in`), and nothing else is kept (DataProcessor
\* has no attribute)
Reapply(name, data, outcome) ==
    /\ op' = name
    /\ arg' = data
    /\ raw' = data
    /\ result' = outcome
    /\ history' = Append(history, [name |-> name, data |-> data, out |-> outcome])
    /\ UNCHANGED <<calls, printed, last, front>>

ProcessAllDataAgain ==
    /\ Len(history) < MaxHistory
    /\ \E data \in RepeatInputs :
        Reapply("process_all_data", data, process_all_data(data))

ValidateResponseAgain ==
    /\ Len(history) < MaxHistory
    /\ \E data \in RepeatInputs :
        Reapply("validate_response", data, Ok(PyBool(validate_response(data))))

ExtractSecurityInfoAgain ==
    /\ Len(history) < MaxHistory
    /\ \E data \in RepeatInputs :
        /\ data.t = "dict"
        /\ Reapply("extract_security_info", data, extract_security_info(data))

NextRepeat ==
    \/ ProcessAllDataAgain
    \/ ValidateResponseAgain
    \/ ExtractSecurityInfoAgain

SpecRepeat == InitRepeat /\ [][NextRepeat]_vars

-----------------------------------------------------------------------------
(* The JSON export of what the transformer returns *)

\* the longest text drawn for a field of an exported response
MaxTextLen == 2

\* the characters json.dump escapes, the one it cannot encode, and words
\* that read as JSON syntax
ExportTokens ==
    {"\"", "\\", "\n", "n", "Paris", "true", "}", ",", ":", " ", LoneSurrogate}

ExportTexts ==
    UNION {[1..n -> ExportTokens] : n \in 0..MaxTextLen}

\* the values a field of a response can hold
ExportValues ==
    {PyStr(text) : text \in ExportTexts}
        \cup {PyInt(0), PyInt(-7), PyInt(42), PyTrue, PyFalse, PyNone,
              EmptyDict, PyDict("name" :> Text("\"")), PyList(<<>>),
              PyList(<<"a", "\"">>), PyList(<<LoneSurrogate>>)}

ExportInputs ==
    {PyDict(("ip_address" :> SampleIp) @@ ("city" :> value)) :
         value \in ExportValues}
        \cup {SampleResponse, PyDict("city" :> Text("x"))}

ExportNames == {PyNone, PyStr(<<"out", ".json">>)}

\* whether open(filename, 'w') succeeds, or what it raises
Disks == {"ok", "PermissionError"}

InitExport ==
    /\ raw \in ExportInputs
    /\ op = "init"
    /\ arg = PyNone
    /\ result = NoResult
    /\ calls = 0
    /\ printed = <<>>
    /\ last = NoCall
    /\ history = <<>>
    /\ NoFrontEnd

ExportProcessAllData ==
    /\ op = "init"
    /\ Apply("process_all_data", process_all_data(raw))

\* OutputFormatter.save_to_file on a mapping process_all_data returned
ExportSaveToFile ==
    /\ op = "process_all_data"
    /\ result.exc = ""
    /\ \E filename \in ExportNames : \E disk \in Disks :
        LET saved == save_to_file(result.val, filename, disk)
        IN  /\ op' = "save_to_file"
            /\ arg' = result.val
            /\ result' = Ok(saved.out)
            /\ files' = saved.files
            /\ screen' = saved.screen
            /\ UNCHANGED <<raw, calls, printed, last, history, frontend,
                           api_key, api_client, pc, running, slot, prompts,
                           sent, reply>>

NextExport ==
    \/ ExportProcessAllData
    \/ ExportSaveToFile

SpecExport == InitExport /\ [][NextExport]_vars

----------------------------------------------------------------------------
(* The transport adapter against every outcome of the network *)

Statuses == {200, 201, 401, 404, 422, 429, 500}

\* the parsed bodies drawn: JSON null, an empty object, a response without
\* and with an address, the fixture
Bodies ==
    {PyNone, EmptyDict, PyDict("city" :> Text("x")),
     PyDict("ip_address" :> SampleIp), SampleResponse}

NetOutcomes ==
    {Net("response", st, b) : st \in Statuses, b \in Bodies}
    \cup {Net(e, 0, PyNone) :
             e \in {"Timeout", "ConnectionError", "RequestException", "Exception"}}

\* the arguments drawn for get_specific_ip_info
Addresses ==
    {PyStr(<<"8", ".", "8">>), PyStr(<<":", ":", "1">>), Text("bad"),
     PyStr(<<>>), PyNone, PyInt(8)}

InitClient ==
    /\ raw = PyNone
    /\ op = "init"
    /\ arg = PyNone
    /\ result = NoResult
    /\ calls = 0
    /\ printed = <<>>
    /\ last = NoCall
    /\ history = <<>>
    /\ NoFrontEnd

\* the method `name` is called on `argument`, the network answers `net`
Call(name, argument, net, done) ==
    /\ op' = name
    /\ arg' = argument
    /\ result' = done.out
    /\ printed' = done.msg
    /\ calls' = calls + done.gets
    /\ last' = [method |-> name, net |-> net, gets |-> done.gets]
    /\ UNCHANGED <<raw, front, history>>

GetCurrentIpInfo ==
    /\ calls < MaxCalls
    /\ \E net \in NetOutcomes :
        Call("get_current_ip_info", PyNone, net, get_current_ip_info(net))

GetSpecificIpInfo ==
    /\ calls < MaxCalls
    /\ \E ip_address \in Addresses, net \in NetOutcomes :
        Call("get_specific_ip_info", ip_address, net,
             get_specific_ip_info(ip_address, net))

TestConnection ==
    /\ calls < MaxCalls
    /\ \E net \in NetOutcomes :
        Call("test_connection", PyNone, net, test_connection(net))

NextClient ==
    \/ GetCurrentIpInfo
    \/ GetSpecificIpInfo
    \/ TestConnection

SpecClient == InitClient /\ [][NextClient]_vars

----------------------------------------------------------------------------
(* The two front ends, from start-up on, against every outcome of the      *)
(* network                                                                  *)

\* what os.getenv('ABSTRACT_API_KEY') gives: unset, empty, set
ApiKeys == {PyNone, PyStr(<<>>), PyStr(<<"test_api_key_12345">>)}

\* the bodies of SpecClient and a response whose address is a number
FrontBodies == Bodies \cup {PyDict("ip_address" :> PyInt(8))}

FrontNet ==
    {Net("response", st, b) : st \in Statuses, b \in FrontBodies}
    \cup {Net(e, 0, PyNone) :
             e \in {"Timeout", "ConnectionError", "RequestException", "Exception"}}

\* the lines typed at "Enter IP address: "
TypedAddresses ==
    {PyStr(<<>>), PyStr(<<" ">>), PyStr(<<" ", "8", ".", "8", " ">>),
     PyStr(<<"8", ".", "8">>), Text("bad")}

\* what request.get_json() gives for the bodies posted to /api/lookup-ip
JsonBodies ==
    {PyNone, PyList(<<>>), EmptyDict, PyDict("ip" :> PyStr(<<"8", ".", "8">>))}
    \cup {PyDict("ip_address" :> v) : v \in TypedAddresses \cup {PyInt(8), PyNone}}

\* the lines typed at the menu that are no option
OtherChoices == {PyStr(<<>>), Text("7"), Text("x")}

SaveChoices == {Text("1"), Text("2"), Text("3"), Text("4"), PyStr(<<>>)}
Filenames == {PyStr(<<>>), Text("out")}

ChoicePrompt == <<"Enter your choice (1-6): ">>

InitFront ==
    /\ raw = PyNone
    /\ op = "init"
    /\ arg = PyNone
    /\ result = NoResult
    /\ calls = 0
    /\ printed = <<>>
    /\ last = NoCall
    /\ history = <<>>
    /\ frontend \in {"cli", "web"}
    /\ api_key \in ApiKeys
    /\ api_client = "unset"
    /\ pc = "start"
    /\ running = FALSE
    /\ slot = PyNone
    /\ screen = <<>>
    /\ prompts = <<>>
    /\ files = <<>>
    /\ sent = PyNone
    /\ reply = NoReply

\* the adapter call a handler made, as SpecClient records it, and the
\* raw_data a lookup returned to the handler (None when it returned nothing)
Fetched(method, net, fetched) ==
    /\ raw' = IF method \in {"get_current_ip_info", "get_specific_ip_info"}
                  /\ fetched.out.exc = ""
               THEN fetched.out.val ELSE PyNone
    /\ printed' = fetched.msg
    /\ calls' = calls + fetched.gets
    /\ last' = IF fetched.gets = 0 THEN NoCall
               ELSE [method |-> method, net |-> net, gets |-> fetched.gets]

\* main(): IPInfoApp() and the start of run().  A ValueError from the
\* adapter's constructor is printed and the process exits with status 1.
CliStart ==
    /\ frontend = "cli"
    /\ pc = "start"
    /\ op' = "main.__init__"
    /\ IF AbstractAPIClient__init__(api_key).exc = "ValueError"
       THEN /\ screen' = <<"Initialization Error: ",
                           "ABSTRACT_API_KEY not found in environment variables. Please check your .env file.">>
            /\ pc' = "exit1"
            /\ UNCHANGED <<api_client, running>>
       ELSE /\ screen' = <<"IPv4/IPv6 ADDRESS INFORMATION APPLICATION">>
            /\ pc' = "menu"
            /\ api_client' = "ready"
            /\ running' = TRUE
    /\ slot' = PyNone
    /\ UNCHANGED <<raw, arg, result, calls, printed, last, frontend, api_key,
                   prompts, files, sent, reply, history>>

\* run(): the handler of the option chosen has done `step`; an exception it
\* raises ends run() and is printed by main(), which exits with status 1;
\* otherwise the loop pauses and shows the menu again
CliDo(name, input, method, net, step) ==
    /\ op' = name
    /\ arg' = input
    /\ result' = step.out
    /\ Fetched(method, net, step.fetched)
    /\ slot' = step.slot
    /\ files' = step.files
    /\ sent' = step.sent
    /\ IF step.out.exc # ""
       THEN /\ screen' = step.screen
                   \o <<"An unexpected error occurred: ", step.out.exc>>
            /\ prompts' = ChoicePrompt \o step.prompts
            /\ pc' = "exit1"
       ELSE /\ screen' = step.screen
            /\ prompts' = ChoicePrompt \o step.prompts
                   \o <<"Press Enter to continue...">>
            /\ pc' = "menu"
    /\ UNCHANGED <<frontend, api_key, api_client, running, reply, history>>

\* the line typed at the menu is no option: get_user_choice asks again
CliInvalidChoice ==
    /\ frontend = "cli"
    /\ pc = "menu"
    /\ running
    /\ \E choice \in OtherChoices :
        /\ op' = "main.get_user_choice"
        /\ arg' = choice
        /\ result' = Ok(PyNone)
        /\ Fetched("", NoNet, NoFetch)
        /\ screen' = <<"Invalid choice. Please enter a number between 1 and 6.">>
        /\ prompts' = ChoicePrompt
        /\ files' = <<>>
        /\ sent' = PyNone
    /\ UNCHANGED <<frontend, api_key, api_client, pc, running, slot, reply,
                   history>>

CliGetCurrentIpInfo ==
    /\ frontend = "cli"
    /\ pc = "menu"
    /\ running
    /\ calls < MaxCalls
    /\ \E net \in FrontNet :
        CliDo("main.get_current_ip_info", Text("1"), "get_current_ip_info",
              net, IPInfoApp_get_current_ip_info(slot, net))

CliLookupSpecificIp ==
    /\ frontend = "cli"
    /\ pc = "menu"
    /\ running
    /\ calls < MaxCalls
    /\ \E typed \in TypedAddresses, net \in FrontNet :
        CliDo("main.lookup_specific_ip", typed, "get_specific_ip_info", net,
              IPInfoApp_lookup_specific_ip(slot, typed, net))

CliDisplayTableFormat ==
    /\ frontend = "cli"
    /\ pc = "menu"
    /\ running
    /\ CliDo("main.display_table_format", Text("3"), "", NoNet,
             IPInfoApp_display_table_format(slot))

CliSaveLastResult ==
    /\ frontend = "cli"
    /\ pc = "menu"
    /\ running
    /\ \E save_choice \in SaveChoices, filename_base \in Filenames,
          disk \in Disks :
        CliDo("main.save_last_result",
              PyList(<<save_choice, filename_base>>), "", NoNet,
              IPInfoApp_save_last_result(slot, save_choice, filename_base, disk))

CliTestApiConnection ==
    /\ frontend = "cli"
    /\ pc = "menu"
    /\ running
    /\ calls < MaxCalls
    /\ \E net \in FrontNet :
        CliDo("main.test_api_connection", Text("5"), "test_connection", net,
              IPInfoApp_test_api_connection(slot, net))

\* option 6: exit_application; the loop ends, run() and main() return
CliExitApplication ==
    /\ frontend = "cli"
    /\ pc = "menu"
    /\ running
    /\ op' = "main.exit_application"
    /\ arg' = Text("6")
    /\ result' = Ok(PyNone)
    /\ Fetched("", NoNet, NoFetch)
    /\ screen' = <<"Thank you for using IP Address Information Application!">>
    /\ prompts' = ChoicePrompt
    /\ files' = <<>>
    /\ sent' = PyNone
    /\ running' = FALSE
    /\ pc' = "done"
    /\ UNCHANGED <<frontend, api_key, api_client, slot, reply, history>>

\* app.py is imported: a ValueError from the adapter's constructor is printed
\* and api_client is None; the application serves in both cases
WebStart ==
    /\ frontend = "web"
    /\ pc = "start"
    /\ op' = "app.init"
    /\ IF AbstractAPIClient__init__(api_key).exc = "ValueError"
       THEN /\ screen' = <<"Error initializing API client: ",
                           "ABSTRACT_API_KEY not found in environment variables. Please check your .env file.">>
            /\ api_client' = "None"
       ELSE /\ screen' = <<>>
            /\ api_client' = "ready"
    /\ pc' = "serving"
    /\ UNCHANGED <<raw, arg, result, calls, printed, last, frontend, api_key,
                   running, slot, prompts, files, sent, reply, history>>

\* an endpoint has handled a request by `step`
WebDo(name, input, method, net, step) ==
    /\ op' = name
    /\ arg' = input
    /\ result' = Ok(PyNone)
    /\ Fetched(method, net, step.fetched)
    /\ sent' = step.sent
    /\ reply' = step.reply
    /\ UNCHANGED <<frontend, api_key, api_client, pc, running, slot, screen,
                   prompts, files, history>>

WebGetCurrentIp ==
    /\ frontend = "web"
    /\ pc = "serving"
    /\ calls < MaxCalls
    /\ \E net \in FrontNet :
        WebDo("app.get_current_ip", PyNone, "get_current_ip_info", net,
              get_current_ip(api_client, net))

WebLookupIp ==
    /\ frontend = "web"
    /\ pc = "serving"
    /\ calls < MaxCalls
    /\ \E data \in JsonBodies, net \in FrontNet :
        WebDo("app.lookup_ip", data, "get_specific_ip_info", net,
              lookup_ip(api_client, data, net))

WebTestConnection ==
    /\ frontend = "web"
    /\ pc = "serving"
    /\ calls < MaxCalls
    /\ \E net \in FrontNet :
        WebDo("app.test_connection", PyNone, "test_connection", net,
              app_test_connection(api_client, net))

NextFront ==
    \/ CliStart
    \/ CliInvalidChoice
    \/ CliGetCurrentIpInfo
    \/ CliLookupSpecificIp
    \/ CliDisplayTableFormat
    \/ CliSaveLastResult
    \/ CliTestApiConnection
    \/ CliExitApplication
    \/ WebStart
    \/ WebGetCurrentIp
    \/ WebLookupIp
    \/ WebTestConnection

SpecFront == InitFront /\ [][NextFront]_vars

----------------------------------------------------------------------------
(* Properties of the response transformer (checked under Spec) *)

HasKey(r, k) == r.t = "dict" /\ k \in DOMAIN r.d

OnlyAddress(r) == r.t = "dict" /\ DOMAIN r.d = {"ip_address"}

Categories ==
    {"basic", "connection", "timezone", "security", "currency", "flag"}

FlagLabels == {"Is VPN", "Is Proxy", "Is Tor", "Is Relay"}

Labels(category) ==
    CASE category = "basic" ->
            {"IP Address", "IP Version", "City", "Region", "Country",
             "Country Code", "Continent", "Postal Code", "Latitude", "Longitude"}
      [] category = "connection" ->
            {"ISP", "Organization", "ASN", "ASN Organization", "Connection Type"}
      [] category = "timezone" ->
            {"Timezone Name", "Abbreviation", "GMT Offset", "Current Time",
             "Is DST"}
      [] category = "security" -> FlagLabels \cup {"Threat Level"}
      [] category = "currency" ->
            {"Currency Name", "Currency Code", "Currency Symbol"}
      [] category = "flag" ->
            {"Flag Emoji", "Flag Unicode", "Flag PNG", "Flag SVG"}

LabelCount(category) ==
    CASE category = "basic" -> 10
      [] category = "connection" -> 5
      [] category = "timezone" -> 5
      [] category = "security" -> 5
      [] category = "currency" -> 3
      [] category = "flag" -> 4

Processed == op = "process_all_data"

\* process_all_data returned a CategorizedInfo (not {} and no exception)
Categorized == Processed /\ result.exc = "" /\ result.val # EmptyDict

Field(category, label) == result.val.d[category].d[label]

\* C1: for every raw response that contains the key ip_address, whatever the
\* types of its values, process_all_data returns a result and raises nothing.
C1_NeverRaises ==
    (Processed /\ HasKey(raw, "ip_address")) => result.exc = ""

\* C2: for every raw response that lacks the key ip_address, None and the empty
\* mapping included, process_all_data returns the empty mapping and raises
\* nothing.
C2_NoAddressGivesEmpty ==
    (Processed /\ ~HasKey(raw, "ip_address")) => result = Ok(EmptyDict)

\* a response without an address whose connection group is no mapping was
\* processed and gave {}
C2_Witness ==
    /\ Processed
    /\ HasKey(raw, "connection")
    /\ raw.d["connection"].t # "dict"
    /\ ~HasKey(raw, "ip_address")
    /\ result = Ok(EmptyDict)

C4_SixFixedCategories ==
    (Processed /\ raw # PyNone /\ raw # EmptyDict /\ HasKey(raw, "ip_address")) =>
        /\ result.exc = ""
        /\ DOMAIN result.val.d = Categories
        /\ \A c \in Categories :
              /\ DOMAIN result.val.d[c].d = Labels(c)
              /\ Cardinality(DOMAIN result.val.d[c].d) = LabelCount(c)

\* C5: validate_response(raw) is True if and only if raw is neither None nor
\* empty and contains the key ip_address, whatever value is stored under it.
C5_ValidateIff ==
    op = "validate_response" =>
        result = Ok(PyBool(/\ raw # PyNone
                           /\ raw # EmptyDict
                           /\ HasKey(raw, "ip_address")))

\* a response whose address is empty or null was validated and accepted
C5_Witness ==
    /\ op = "validate_response"
    /\ HasKey(raw, "ip_address")
    /\ raw.d["ip_address"] \in {PyStr(<<>>), PyNone}
    /\ result = Ok(PyTrue)

ThreatName(flag) ==
    CASE flag = "is_vpn" -> "VPN"
      [] flag = "is_proxy" -> "Proxy"
      [] flag = "is_tor" -> "Tor"
      [] flag = "is_relay" -> "Relay"

FlagOrder == <<"is_vpn", "is_proxy", "is_tor", "is_relay">>

\* the names of the flags of `on`, in the fixed order
NamesOf(on) ==
    LET picked == SelectSeq(FlagOrder, LAMBDA f : f \in on)
    IN  [i \in 1..Len(picked) |-> ThreatName(picked[i])]

\* names separated by ", "
CommaSeparated(names) ==
    [i \in 1..(2 * Len(names) - 1) |->
        IF i % 2 = 1 THEN names[(i + 1) \div 2] ELSE ", "]

ExpectedThreatLevel(on) ==
    LET names == NamesOf(on)
    IN  IF Len(names) = 0 THEN <<"Clean">>
        ELSE IF Len(names) = 1 THEN <<"Low (", names[1], " detected)">>
        ELSE <<"Medium (Multiple: ">> \o CommaSeparated(names) \o <<")">>

\* the security group holds the four flags, each a boolean
FourBooleans(security) ==
    /\ DOMAIN security.d = SecurityFlags
    /\ \A f \in SecurityFlags : security.d[f].t = "bool"

\* C6: for all 16 combinations of the four flags _assess_threat_level returns
\* "Clean" for none, "Low (<Name> detected)" for one and "Medium (Multiple:
\* <names>)" for two or more, the names joined by ", " in the order VPN, Proxy,
\* Tor, Relay; no other label, in particular no "High", is ever produced.
C6_ThreatLevels ==
    op = "_assess_threat_level" =>
        /\ result.exc = ""
        /\ result.val.t = "str"
        /\ result.val.s[1] \in {"Clean", "Low (", "Medium (Multiple: "}
        /\ FourBooleans(arg) =>
              result.val.s =
                  ExpectedThreatLevel({f \in SecurityFlags : arg.d[f] = PyTrue})

\* the four flags were all set and the level is Medium, naming all four
C6_Witness ==
    /\ op = "_assess_threat_level"
    /\ FourBooleans(arg)
    /\ \A f \in SecurityFlags : arg.d[f] = PyTrue
    /\ result.val.s = <<"Medium (Multiple: ", "VPN", ", ", "Proxy", ", ", "Tor",
                        ", ", "Relay", ")">>

\* the classification C7 states for a text
ExpectedVersion(text) ==
    IF \E i \in 1..Len(text) : text[i] = ":" THEN <<"IPv6">>
    ELSE IF \E i \in 1..Len(text) : text[i] = "." THEN <<"IPv4">>
    ELSE <<"Unknown">>

\* C7: for every string s, _determine_ip_version(s) is "IPv6" if s contains a
\* colon (even beside a period), otherwise "IPv4" if it contains a period,
\* otherwise "Unknown" (the empty string included); and the 'IP Version' field
\* of the basic category is this classification of the raw ip_address.
C7_IpVersion ==
    /\ (op = "_determine_ip_version" /\ arg.t = "str") =>
          result = Ok(PyStr(ExpectedVersion(arg.s)))
    /\ (/\ op = "extract_basic_info"
        /\ result.exc = ""
        /\ HasKey(raw, "ip_address")
        /\ raw.d["ip_address"].t = "str") =>
          result.val.d["IP Version"] = PyStr(ExpectedVersion(raw.d["ip_address"].s))
    /\ (Categorized /\ raw.d["ip_address"].t = "str") =>
          Field("basic", "IP Version") = PyStr(ExpectedVersion(raw.d["ip_address"].s))

\* an address holding a period before a colon was classified IPv6
C7_Witness ==
    /\ op = "_determine_ip_version"
    /\ arg = PyStr(<<".", ":">>)
    /\ result = Ok(PyStr(<<"IPv6">>))

FlagLabel(flag) ==
    CASE flag = "is_vpn" -> "Is VPN"
      [] flag = "is_proxy" -> "Is Proxy"
      [] flag = "is_tor" -> "Is Tor"
      [] flag = "is_relay" -> "Is Relay"

\* C8: when the security group or any of its four flags is absent from the raw
\* response, the absent flags are treated as false: their output fields are
\* False and, if no flag is set, 'Threat Level' is "Clean".
C8_AbsentFlagsFalse ==
    (op = "extract_security_info" /\ result.exc = "") =>
        LET security == IF HasKey(raw, "security") THEN raw.d["security"].d
                        ELSE EmptyMap
        IN  /\ \A f \in SecurityFlags \ DOMAIN security :
                  result.val.d[FlagLabel(f)] = PyFalse
            /\ (\A f \in DOMAIN security : ~Truthy(security[f])) =>
                  result.val.d["Threat Level"] = PyStr(<<"Clean">>)

\* a security group holding some of the flags, none of them set, was extracted
C8_Witness ==
    /\ op = "extract_security_info"
    /\ HasKey(raw, "security")
    /\ raw.d["security"].t = "dict"
    /\ DOMAIN raw.d["security"].d \notin {{}, SecurityFlags}
    /\ \A f \in DOMAIN raw.d["security"].d : raw.d["security"].d[f] = PyFalse
    /\ result.exc = ""
    /\ result.val.d["Is Relay"] = PyFalse
    /\ result.val.d["Threat Level"] = PyStr(<<"Clean">>)

\* C9: in every CategorizedInfo returned by process_all_data every field value
\* is a string, except the four security flag fields, which are booleans.
C9_FieldTypes ==
    Categorized =>
        \A c \in Categories : \A l \in Labels(c) :
            Field(c, l).t =
                IF c = "security" /\ l \in FlagLabels THEN "bool" ELSE "str"

----------------------------------------------------------------------------
(* Properties of the transport adapter (checked under SpecClient) *)

\* the failure a printed message reports ("none": nothing was printed)
FailureOf(message) ==
    IF message = <<>> THEN "none"
    ELSE CASE message[1] = "Error: Invalid API key. Please check your credentials."
                -> "unauthorized"
           [] message[1] = "Error: API rate limit exceeded. Please try again later."
                -> "rate-limited"
           [] message[1] = "Error: Invalid IP address format: "
                -> "invalid-address"
           [] message[1] = "Error: Invalid IP address format."
                -> "invalid-input"
           [] message[1] = "Error: API returned status code "
                -> "generic"
           [] message[1] =
                "Error: Request timed out. Please check your internet connection."
                -> "timeout"
           [] message[1] =
                "Error: Could not connect to API. Please check your internet connection."
                -> "connection"
           [] OTHER -> "other"

\* C10: the transport adapter classifies each outcome of a fetch: status 200
\* returns the parsed body unchanged; 401 is the unauthorized failure; 429 the
\* rate-limited failure; 422 the invalid-address failure on
\* get_specific_ip_info only (generic on get_current_ip_info); every other
\* non-200 status the generic failure; a timeout and a connection error each
\* their own failure.  Every failure outcome returns None.
C10_FetchOutcomes ==
    (op \in {"get_current_ip_info", "get_specific_ip_info"} /\ last.gets = 1) =>
        LET net == last.net
            failure == FailureOf(printed)
            status == IF net.kind = "response" THEN net.status ELSE 0
        IN  /\ status = 200 => (result = Ok(net.body) /\ failure = "none")
            /\ status = 401 => failure = "unauthorized"
            /\ status = 429 => failure = "rate-limited"
            /\ status = 422 =>
                  failure = IF op = "get_specific_ip_info"
                            THEN "invalid-address" ELSE "generic"
            /\ (net.kind = "response" /\ status \notin {200, 401, 422, 429}) =>
                  failure = "generic"
            /\ net.kind = "Timeout" => failure = "timeout"
            /\ net.kind = "ConnectionError" => failure = "connection"
            /\ failure # "none" => result = Ok(PyNone)

\* get_current_ip_info met status 422 and reported the generic failure
C10_Witness ==
    /\ op = "get_current_ip_info"
    /\ last.net.kind = "response"
    /\ last.net.status = 422
    /\ FailureOf(printed) = "generic"
    /\ result = Ok(PyNone)

\* a lookup that issued its GET and got a response with a status other than 200
FetchFailedWithStatus ==
    /\ op \in {"get_current_ip_info", "get_specific_ip_info"}
    /\ last.gets = 1
    /\ last.net.kind = "response"
    /\ last.net.status # 200

\* the decimal digits of a three-digit status code
StatusDigits(status_code) ==
    <<Digit(status_code \div 100), Digit((status_code \div 10) % 10),
      Digit(status_code % 10)>>

\* C11 as stated: when a fetch fails with a non-200 status, the value returned
\* to the caller is a failure reason (not None) that carries the HTTP status
\* code.
C11_ReturnsFailureReason ==
    FetchFailedWithStatus =>
        /\ result.exc = ""
        /\ result.val.t # "none"
        /\ result.val.n = last.net.status

\* C11 (amended): when a fetch fails with a non-200 status the value returned
\* is None whatever the status; the failure reason is only printed.  The
\* printed message is the unauthorized message on 401, the rate-limited
\* message on 429, on 422 the invalid-address message followed by the address
\* (get_specific_ip_info only), and otherwise the generic message followed by
\* the digits of the status code; the four messages are pairwise different
\* and only the generic one carries the status code.
C11_FailurePrinted ==
    FetchFailedWithStatus =>
        LET status_code == last.net.status
        IN  /\ result = Ok(PyNone)
            /\ status_code = 401 => printed =
                   <<"Error: Invalid API key. Please check your credentials.">>
            /\ status_code = 429 => printed =
                   <<"Error: API rate limit exceeded. Please try again later.">>
            /\ (status_code = 422 /\ op = "get_specific_ip_info") =>
                   printed = <<"Error: Invalid IP address format: ">> \o arg.s
            /\ (status_code \notin {401, 429}
                   /\ (status_code # 422 \/ op = "get_current_ip_info")) =>
                   printed = <<"Error: API returned status code ">>
                                 \o StatusDigits(status_code)

\* get_specific_ip_info met status 404: it returned None and printed the
\* generic message with the digits 4, 0, 4
C11_Witness ==
    /\ op = "get_specific_ip_info"
    /\ FetchFailedWithStatus
    /\ last.net.status = 404
    /\ result = Ok(PyNone)
    /\ printed = <<"Error: API returned status code ", "4", "0", "4">>

\* an argument get_specific_ip_info rejects: empty, None or not a string
InvalidInput(ip_address) ==
    \/ ip_address.t # "str"
    \/ ip_address.s = <<>>

\* C12: get_specific_ip_info called with an address that is empty, None or
\* not a string returns None with the invalid-input failure and issues no
\* network call: the count of GETs is what it was before the call.
C12_InvalidInputNoCall ==
    [][(op' = "get_specific_ip_info" /\ InvalidInput(arg')) =>
          /\ calls' = calls
          /\ last'.gets = 0
          /\ result' = Ok(PyNone)
          /\ FailureOf(printed') = "invalid-input"]_vars

\* get_specific_ip_info(None) after an earlier call that issued a GET: the
\* count of GETs stays at one
C12_Witness ==
    /\ op = "get_specific_ip_info"
    /\ arg = PyNone
    /\ calls = 1
    /\ last.gets = 0
    /\ result = Ok(PyNone)
    /\ printed = <<"Error: Invalid IP address format.">>

\* C13: every invocation of get_current_ip_info, of get_specific_ip_info with
\* a valid address, or of test_connection issues exactly one GET whatever the
\* outcome (any status, timeout, connection error, any exception): the count
\* of GETs grows by one, no more.
C13_ExactlyOneCall ==
    [][(\/ op' \in {"get_current_ip_info", "test_connection"}
        \/ (op' = "get_specific_ip_info" /\ ~InvalidInput(arg'))) =>
          /\ calls' = calls + 1
          /\ last'.gets = 1]_vars

\* a lookup timed out and exactly one GET was issued in all
C13_Witness ==
    /\ op = "get_specific_ip_info"
    /\ ~InvalidInput(arg)
    /\ last.net.kind = "Timeout"
    /\ last.gets = 1
    /\ calls = 1

\* C14: test_connection returns True if and only if its GET returned status
\* 200; every other status and every exception raised by the GET, of any
\* class, gives False, and nothing is raised to the caller.
C14_TestConnectionBoolean ==
    op = "test_connection" =>
        /\ result.exc = ""
        /\ result.val \in {PyTrue, PyFalse}
        /\ result.val = PyTrue <=>
              (last.net.kind = "response" /\ last.net.status = 200)

\* the GET raised an exception that is no RequestException and
\* test_connection returned False
C14_Witness ==
    /\ op = "test_connection"
    /\ last.net.kind = "Exception"
    /\ result = Ok(PyFalse)

----------------------------------------------------------------------------
(* Properties of the front ends (checked under SpecFront) *)

LookupOptions == {"main.get_current_ip_info", "main.lookup_specific_ip"}

\* the lookup of the last step succeeded: its GET was answered 200 with a
\* response that passes validation, and nothing was raised
LookupSucceeded ==
    /\ op \in LookupOptions
    /\ last.gets = 1
    /\ last.net.kind = "response"
    /\ last.net.status = 200
    /\ validate_response(last.net.body)
    /\ result.exc = ""

\* C15: the CLI's 'last result' slot holds the CategorizedInfo of the most
\* recent successful lookup: a successful lookup replaces the slot by its own
\* result, and a failed lookup of any kind (no data from the adapter, or a
\* response that fails validation) leaves a stored result in the slot.
C15_SlotKeepsLastSuccess ==
    [][op' \in LookupOptions =>
          IF LookupSucceeded'
          THEN slot' = process_all_data(last'.net.body).val
          ELSE Truthy(slot) => slot' = slot]_vars

WebEndpoints == {"app.get_current_ip", "app.lookup_ip", "app.test_connection"}
WebLookups == {"app.get_current_ip", "app.lookup_ip"}

Keys(r) == DOMAIN r.body.d

\* the body of a response holds an 'error' string
HasError(r) ==
    /\ r.body.t = "dict"
    /\ "error" \in Keys(r)
    /\ r.body.d["error"].t = "str"

\* {error: string} with a 4xx/5xx status
IsErrorEnvelope(r) == r.status \in 400..599 /\ HasError(r)

\* {success: true, data: CategorizedInfo} with status 200
IsSuccessEnvelope(r) ==
    /\ r.status = 200
    /\ r.body.t = "dict"
    /\ Keys(r) = {"success", "data"}
    /\ r.body.d["success"] = PyTrue
    /\ r.body.d["data"].t = "dict"
    /\ DOMAIN r.body.d["data"].d = Categories

\* the request of the last step succeeded: a lookup got a 200 response that
\* passes validation and is transformed; the connection test got status 200
RequestSucceeded ==
    /\ last.gets = 1
    /\ last.net.kind = "response"
    /\ last.net.status = 200
    /\ op \in WebLookups =>
          /\ validate_response(last.net.body)
          /\ process_all_data(last.net.body).exc = ""

\* C16 as stated: each of the three web endpoints answers
\* {success: true, data: CategorizedInfo} with status 200 on success and a
\* body with an 'error' string and a 4xx/5xx status on every failure.
C16_Envelopes ==
    op \in WebEndpoints =>
        IF RequestSucceeded THEN IsSuccessEnvelope(reply)
        ELSE IsErrorEnvelope(reply)

\* C16 (amended): /api/current-ip and /api/lookup-ip answer
\* {success: true, data: CategorizedInfo} with status 200 on success and a
\* body with an 'error' string and a 4xx/5xx status on every failure.
\* /api/test-connection answers {success: true, message} with status 200 and
\* no 'data' when the connection test succeeds, {success: false, message}
\* with status 500 and no 'error' when it fails, and the 'error' body with
\* status 500 only when the API client was not initialized.
C16_EnvelopesByEndpoint ==
    /\ op \in WebLookups =>
          IF RequestSucceeded
          THEN /\ IsSuccessEnvelope(reply)
               /\ reply.body.d["data"] = process_all_data(last.net.body).val
          ELSE IsErrorEnvelope(reply)
    /\ op = "app.test_connection" =>
          IF api_client # "ready"
          THEN IsErrorEnvelope(reply) /\ reply.status = 500
          ELSE /\ reply.body.t = "dict"
               /\ Keys(reply) = {"success", "message"}
               /\ reply.body.d["message"].t = "str"
               /\ reply.status = IF RequestSucceeded THEN 200 ELSE 500
               /\ reply.body.d["success"] = PyBool(RequestSucceeded)

\* the connection test failed on a timeout: status 500, success false, and
\* no 'error' in the body
C16_Witness ==
    /\ op = "app.test_connection"
    /\ last.net.kind = "Timeout"
    /\ reply.status = 500
    /\ reply.body.d["success"] = PyFalse
    /\ "error" \notin Keys(reply)

\* the ip_address a body posted to /api/lookup-ip holds ('' when it has none)
Posted(data) == Get(data, "ip_address", PyStr(<<>>))

\* a JSON object without ip_address, or with one that is empty or white space
NoAddressPosted(data) ==
    /\ data.t = "dict"
    /\ Posted(data).t = "str"
    /\ \A i \in DOMAIN Posted(data).s : Posted(data).s[i] = " "

\* the text of a string without its leading and trailing white space
Trimmed(text) ==
    LET inner == {i \in DOMAIN text : text[i] # " "}
        first == CHOOSE i \in inner : \A j \in inner : i <= j
        final == CHOOSE i \in inner : \A j \in inner : j <= i
    IN  IF inner = {} THEN <<>> ELSE SubSeq(text, first, final)

\* C17 as stated: POST /api/lookup-ip whose JSON body has no ip_address key,
\* or an ip_address that is empty or only white space, answers 400 with an
\* 'error' field and makes no call to the upstream API; a non-empty address is
\* passed to get_specific_ip_info without its surrounding white space.
C17_MissingAddress400 ==
    op = "app.lookup_ip" =>
        /\ NoAddressPosted(arg) =>
              /\ reply.status = 400
              /\ HasError(reply)
              /\ last.gets = 0
        /\ (arg.t = "dict" /\ Posted(arg).t = "str" /\ ~NoAddressPosted(arg)) =>
              /\ sent = PyStr(Trimmed(Posted(arg).s))
              /\ last.method = "get_specific_ip_info"

\* C17 (amended): when the API client was initialized, POST /api/lookup-ip
\* whose JSON body has no ip_address key, or an ip_address that is empty or
\* only white space, answers 400 with an 'error' field and makes no call to
\* the upstream API, and a non-empty address is passed to
\* get_specific_ip_info without its surrounding white space.  When the API
\* client was not initialized the endpoint answers 500 with the 'API client
\* not initialized' error whatever the body, and calls nothing.
C17_MissingAddress400WhenInitialized ==
    op = "app.lookup_ip" =>
        IF api_client = "ready"
        THEN /\ NoAddressPosted(arg) =>
                   /\ reply.status = 400
                   /\ HasError(reply)
                   /\ last.gets = 0
                   /\ sent = PyNone
             /\ (arg.t = "dict" /\ Posted(arg).t = "str"
                    /\ ~NoAddressPosted(arg)) =>
                   /\ sent = PyStr(Trimmed(Posted(arg).s))
                   /\ last.method = "get_specific_ip_info"
                   /\ last.gets = 1
        ELSE /\ reply.status = 500
             /\ HasError(reply)
             /\ reply.body.d["error"].s =
                    <<"API client not initialized. Check your API key.">>
             /\ last.gets = 0
             /\ sent = PyNone

\* the address " 8.8 " was posted and "8.8" was passed to the adapter
C17_Witness ==
    /\ op = "app.lookup_ip"
    /\ Posted(arg) = PyStr(<<" ", "8", ".", "8", " ">>)
    /\ sent = PyStr(<<"8", ".", "8">>)
    /\ last.method = "get_specific_ip_info"
    /\ last.gets = 1

\* the adapter was called by a lookup endpoint and returned (it did not raise)
AdapterReturned ==
    /\ op \in WebLookups
    /\ last.gets = 1
    /\ last.net.kind # "Exception"

\* C18: for /api/current-ip and /api/lookup-ip, whenever the transport
\* adapter returns no data, or returns data that process_all_data maps to the
\* empty result, the response has status 500 and an 'error' field and holds
\* neither success: true nor a 'data' field.
C18_NoDataIs500 ==
    (AdapterReturned
        /\ (~Truthy(raw) \/ process_all_data(raw) = Ok(EmptyDict))) =>
        /\ reply.status = 500
        /\ HasError(reply)
        /\ "data" \notin Keys(reply)
        /\ "success" \notin Keys(reply)

\* /api/lookup-ip got a 200 response without ip_address from the adapter and
\* answered 500 'Failed to process API response'
C18_Witness ==
    /\ op = "app.lookup_ip"
    /\ AdapterReturned
    /\ last.net.status = 200
    /\ raw = PyDict("city" :> Text("x"))
    /\ reply = ErrorReply(500, <<"Failed to process API response">>)

\* an exception was raised while a web request was handled: the posted body
\* is no JSON object or its ip_address is no string, the adapter raised, or
\* the transformer raised
WebException ==
    /\ op \in WebEndpoints
    /\ api_client = "ready"
    /\ \/ op = "app.lookup_ip" /\ (arg.t # "dict" \/ Posted(arg).t # "str")
       \/ op \in WebLookups /\ last.gets = 1 /\ last.net.kind = "Exception"
       \/ op \in WebLookups /\ last.gets = 1 /\ Truthy(raw)
             /\ process_all_data(raw).exc # ""

\* a lookup of the CLI failed at the transport (a status other than 200, a
\* timeout, a connection error, another RequestException) or at validation
\* (a 200 response that validate_response rejects)
CliLookupFailed ==
    /\ op \in LookupOptions
    /\ last.gets = 1
    /\ \/ last.net.kind \in {"Timeout", "ConnectionError", "RequestException"}
       \/ last.net.kind = "response" /\ last.net.status # 200
       \/ last.net.kind = "response" /\ last.net.status = 200
             /\ ~validate_response(last.net.body)

Shows(message) == \E i \in DOMAIN screen : screen[i] = message

\* C19: no failure reaches the end user as an unhandled fault.  In the web
\* API every request is answered with a JSON object, and every exception
\* raised while a request is handled (a body that is no JSON object, an
\* ip_address that is no string, an exception from the adapter or from the
\* transformer) gives the 'error' envelope with status 500, the application
\* still serving.  In the CLI every transport- or validation-level failure of
\* a lookup prints an error message, after which the loop pauses and shows
\* the menu again; an exception a handler raises is printed by main().
C19_NoUnhandledFault ==
    /\ op \in WebEndpoints =>
          /\ result.exc = ""
          /\ reply.body.t = "dict"
          /\ reply.status \in {200, 400, 500}
          /\ pc = "serving"
    /\ WebException => reply.status = 500 /\ HasError(reply)
    /\ CliLookupFailed =>
          /\ result.exc = ""
          /\ Shows("ERROR: ")
          /\ pc = "menu"
          /\ running
          /\ prompts[Len(prompts)] = "Press Enter to continue..."
    /\ (frontend = "cli" /\ result.exc # "") =>
          /\ Shows("An unexpected error occurred: ")
          /\ pc = "exit1"

\* the transformer raised TypeError on a response whose ip_address is a
\* number and /api/current-ip answered with the 'error' envelope
C19_Witness ==
    /\ op = "app.get_current_ip"
    /\ WebException
    /\ raw = PyDict("ip_address" :> PyInt(8))
    /\ reply = ErrorReply(500, <<"An error occurred: ", "TypeError">>)

\* (the CLI case of C19) a lookup timed out, the error was printed and the
\* menu is shown again
CliFailureShown ==
    /\ op = "main.lookup_specific_ip"
    /\ CliLookupFailed
    /\ last.net.kind = "Timeout"
    /\ Shows("ERROR: ")
    /\ pc = "menu"

\* the front end has started without a credential
StartedWithoutKey ==
    /\ frontend \in {"cli", "web"}
    /\ ~Truthy(api_key)
    /\ pc # "start"

\* C20 as stated: a missing credential (ABSTRACT_API_KEY unset or empty) makes
\* the construction of AbstractAPIClient raise ValueError, and in each front
\* end this is fatal at start-up: the process ends before any request is
\* handled.
C20_MissingKeyFatal ==
    StartedWithoutKey =>
        /\ AbstractAPIClient__init__(api_key) = Raise("ValueError")
        /\ pc = "exit1"
        /\ op \in {"main.__init__", "app.init"}
        /\ calls = 0

\* C20 (amended): a missing credential (ABSTRACT_API_KEY unset or empty) makes
\* the construction of AbstractAPIClient raise ValueError (and a non-empty
\* key constructs the client).  In the CLI this is fatal at start-up: the
\* error is printed and the process exits with status 1 before any menu is
\* shown.  The web application catches the error, prints it and starts with
\* api_client None: it serves, and answers every API request with status 500
\* and the 'API client not initialized' error.  In both front ends no
\* network call is made.
C20_MissingKeyFatalInCliOnly ==
    /\ StartedWithoutKey =>
          /\ AbstractAPIClient__init__(api_key) = Raise("ValueError")
          /\ calls = 0
          /\ frontend = "cli" =>
                /\ pc = "exit1"
                /\ op = "main.__init__"
                /\ ~running
                /\ screen[1] = "Initialization Error: "
          /\ frontend = "web" =>
                /\ pc = "serving"
                /\ api_client = "None"
                /\ screen[1] = "Error initializing API client: "
                /\ op \in WebEndpoints => reply = NotInitialized
    /\ (frontend \in {"cli", "web"} /\ Truthy(api_key) /\ pc # "start") =>
          /\ api_client = "ready"
          /\ pc # "exit1" \/ result.exc # ""

\* the web application started with an empty key and answered a lookup with
\* status 500 'API client not initialized'
C20_Witness ==
    /\ frontend = "web"
    /\ api_key = PyStr(<<>>)
    /\ op = "app.lookup_ip"
    /\ pc = "serving"
    /\ reply.status = 500
    /\ reply = NotInitialized

----------------------------------------------------------------------------
(* Properties of the transformer called repeatedly (checked under SpecRepeat) *)

ProcessedAt(i) == history[i].name = "process_all_data"

ParseError == Val("error", <<>>, 0, EmptyMap)
Parsed(value, next) == [val |-> value, next |-> next]

RECURSIVE SkipSpace(_, _)
SkipSpace(text, i) ==
    IF i <= Len(text) /\ text[i] \in {"\n", "    ", " "}
    THEN SkipSpace(text, i + 1) ELSE i

Unescape(token) == IF token = "n" THEN "\n" ELSE token

\* the string literal whose opening quote was just read
RECURSIVE ParseString(_, _, _)
ParseString(text, i, read) ==
    IF i > Len(text) THEN Parsed(ParseError, i)
    ELSE IF text[i] = "\"" THEN Parsed(PyStr(read), i + 1)
    ELSE IF text[i] = "\\"
    THEN IF i + 1 > Len(text) \/ text[i + 1] \notin {"\"", "\\", "n"}
         THEN Parsed(ParseError, i)
         ELSE ParseString(text, i + 2, Append(read, Unescape(text[i + 1])))
    ELSE IF text[i] = "\n" THEN Parsed(ParseError, i)
    ELSE ParseString(text, i + 1, Append(read, text[i]))

IsDigit(token) == \E d \in 0..9 : Digit(d) = token

RECURSIVE ParseDigits(_, _, _)
ParseDigits(text, i, n) ==
    IF i <= Len(text) /\ IsDigit(text[i])
    THEN ParseDigits(text, i + 1,
                     10 * n + (CHOOSE d \in 0..9 : Digit(d) = text[i]))
    ELSE Parsed(PyInt(n), i)

RECURSIVE ParseValue(_, _)
RECURSIVE ParseMembers(_, _, _)
RECURSIVE ParseElements(_, _, _)

ParseValue(text, from) ==
    LET i == SkipSpace(text, from)
    IN  IF i > Len(text) THEN Parsed(ParseError, i)
        ELSE CASE text[i] = "{" -> ParseMembers(text, i + 1, EmptyMap)
               [] text[i] = "[" -> ParseElements(text, i + 1, <<>>)
               [] text[i] = "\"" -> ParseString(text, i + 1, <<>>)
               [] text[i] = "true" -> Parsed(PyTrue, i + 1)
               [] text[i] = "false" -> Parsed(PyFalse, i + 1)
               [] text[i] = "null" -> Parsed(PyNone, i + 1)
               [] text[i] = "-" ->
                     IF i + 1 <= Len(text) /\ IsDigit(text[i + 1])
                     THEN LET digits == ParseDigits(text, i + 1, 0)
                          IN  Parsed(PyInt(-digits.val.n), digits.next)
                     ELSE Parsed(ParseError, i)
               [] OTHER -> IF IsDigit(text[i]) THEN ParseDigits(text, i, 0)
                           ELSE Parsed(ParseError, i)

\* the members of an object after its brace; a key is one token here
ParseMembers(text, from, members) ==
    LET i == SkipSpace(text, from)
    IN  IF i > Len(text) THEN Parsed(ParseError, i)
        ELSE IF text[i] = "}" THEN Parsed(PyDict(members), i + 1)
        ELSE IF text[i] = "," /\ members # EmptyMap
        THEN ParseMembers(text, i + 1, members)
        ELSE IF text[i] = "\""
        THEN LET key == ParseString(text, i + 1, <<>>)
                 colon == SkipSpace(text, key.next)
                 value == ParseValue(text, colon + 1)
             IN  IF \/ key.val = ParseError
                    \/ Len(key.val.s) # 1
                    \/ colon > Len(text)
                    \/ text[colon] # ":"
                    \/ value.val = ParseError
                 THEN Parsed(ParseError, i)
                 ELSE ParseMembers(text, value.next,
                                   (key.val.s[1] :> value.val) @@ members)
        ELSE Parsed(ParseError, i)

\* the elements of an array of texts after its bracket
ParseElements(text, from, elements) ==
    LET i == SkipSpace(text, from)
    IN  IF i > Len(text) THEN Parsed(ParseError, i)
        ELSE IF text[i] = "]" THEN Parsed(PyList(elements), i + 1)
        ELSE IF text[i] = "," /\ elements # <<>>
        THEN ParseElements(text, i + 1, elements)
        ELSE IF text[i] = "\""
        THEN LET element == ParseString(text, i + 1, <<>>)
             IN  IF element.val = ParseError \/ Len(element.val.s) # 1
                 THEN Parsed(ParseError, i)
                 ELSE ParseElements(text, element.next,
                                    Append(elements, element.val.s[1]))
        ELSE Parsed(ParseError, i)

json_load(text) ==
    LET parsed == ParseValue(text, 1)
    IN  IF parsed.val # ParseError /\ SkipSpace(text, parsed.next) = Len(text) + 1
        THEN parsed.val ELSE ParseError

\* save_to_file has run on the mapping process_all_data returned
Exported == op = "save_to_file"

\* C22: for every CategorizedInfo produced by process_all_data, writing it
\* with save_to_file and parsing the file back yields a mapping equal to the
\* original (wherever the file could be opened for writing)
C22_RoundTrip ==
    (Exported /\ files # <<>>) => json_load(files[1].text) = arg

\* the exports that save_to_file reports as saved do parse back to the
\* mapping written
SavedFileParsesBack ==
    (Exported /\ result.val # PyNone) =>
        /\ Len(files) = 1
        /\ json_load(files[1].text) = arg

\* an export reported as saved whose text needed every escape
SavedWithEscapes ==
    /\ Exported
    /\ result.val # PyNone
    /\ raw.d["city"] = PyStr(<<"\"", "\\">>)
    /\ arg.d["basic"].d["City"] = PyStr(<<"\"", "\\">>)

PresentationOptions ==
    {"main.display_table_format", "main.save_last_result",
     "main.test_api_connection"}

\* display_all_info has printed its report
ReportShown == Shows("IP ADDRESS INFORMATION REPORT")

\* C23: no presentation action mutates the data.  The table view (option 3),
\* the file export (option 4) and the connection test (option 5) leave the
\* 'last result' slot as it was, and after display_all_info has shown the
\* result of a lookup the slot holds what process_all_data returned.
C23_PresentationKeepsSlot ==
    [][/\ op' \in PresentationOptions => slot' = slot
       /\ (op' \in LookupOptions /\ ReportShown') =>
             slot' = process_all_data(raw').val]_vars

\* a stored result was exported to both files and is still in the slot
C23_Witness ==
    /\ op = "main.save_last_result"
    /\ Len(files) = 2
    /\ slot = process_all_data(SampleResponse).val

-----------------------------------------------------------------------------
(* Properties of the extraction of fields (checked under Spec) *)

\* the five categories whose fields are read from the response
FieldExtractors ==
    {"extract_basic_info", "extract_connection_info", "extract_timezone_info",
     "extract_currency_info", "extract_flag_info"}

FieldRead(label, key, text) == [label |-> label, key |-> key, text |-> text]

\* the fields of a category: the label, the raw field it is read from, and
\* whether the value is passed through str()
FieldsOf(extractor) ==
    CASE extractor = "extract_basic_info" ->
            {FieldRead("IP Address", "ip_address", FALSE),
             FieldRead("City", "city", FALSE), FieldRead("Region", "region", FALSE),
             FieldRead("Country", "country", FALSE),
             FieldRead("Country Code", "country_code", FALSE),
             FieldRead("Continent", "continent", FALSE),
             FieldRead("Postal Code", "postal_code", FALSE),
             FieldRead("Latitude", "latitude", TRUE),
             FieldRead("Longitude", "longitude", TRUE)}
      [] extractor = "extract_connection_info" ->
            {FieldRead("ISP", "isp_name", FALSE),
             FieldRead("Organization", "organization_name", FALSE),
             FieldRead("ASN", "autonomous_system_number", TRUE),
             FieldRead("ASN Organization", "autonomous_system_organization", FALSE),
             FieldRead("Connection Type", "connection_type", FALSE)}
      [] extractor = "extract_timezone_info" ->
            {FieldRead("Timezone Name", "name", FALSE),
             FieldRead("Abbreviation", "abbreviation", FALSE),
             FieldRead("GMT Offset", "gmt_offset", TRUE),
             FieldRead("Current Time", "current_time", FALSE),
             FieldRead("Is DST", "is_dst", TRUE)}
      [] extractor = "extract_currency_info" ->
            {FieldRead("Currency Name", "currency_name", FALSE),
             FieldRead("Currency Code", "currency_code", FALSE),
             FieldRead("Currency Symbol", "currency_symbol", FALSE)}
      [] extractor = "extract_flag_info" ->
            {FieldRead("Flag Emoji", "emoji", FALSE),
             FieldRead("Flag Unicode", "unicode", FALSE),
             FieldRead("Flag PNG", "png", FALSE), FieldRead("Flag SVG", "svg", FALSE)}

\* the keys of the response a category is read from
OwnKeys(extractor) ==
    CASE extractor = "extract_basic_info" -> TopScalarKeys \cup {"ip_address"}
      [] extractor = "extract_connection_info" -> {"connection"}
      [] extractor = "extract_timezone_info" -> {"timezone"}
      [] extractor = "extract_currency_info" -> {"currency"}
      [] extractor = "extract_flag_info" -> {"flag"}

\* the mapping whose fields a category reads: the response itself for
\* basic, the group (an empty mapping when absent) for the others
GroupOf(extractor, data) ==
    IF extractor = "extract_basic_info" THEN data
    ELSE Get(data, CHOOSE k \in OwnKeys(extractor) : TRUE, EmptyDict)

\* the response without the keys of the other categories
OwnPart(extractor, data) ==
    PyDict([k \in DOMAIN data.d \cap OwnKeys(extractor) |-> data.d[k]])

Extract(extractor, data) ==
    CASE extractor = "extract_basic_info" -> extract_basic_info(data)
      [] extractor = "extract_connection_info" -> extract_connection_info(data)
      [] extractor = "extract_timezone_info" -> extract_timezone_info(data)
      [] extractor = "extract_currency_info" -> extract_currency_info(data)
      [] extractor = "extract_flag_info" -> extract_flag_info(data)

CategoryOf(extractor) ==
    CASE extractor = "extract_basic_info" -> "basic"
      [] extractor = "extract_connection_info" -> "connection"
      [] extractor = "extract_timezone_info" -> "timezone"
      [] extractor = "extract_currency_info" -> "currency"
      [] extractor = "extract_flag_info" -> "flag"

\* a category function has returned its category
Extracted == op \in FieldExtractors /\ result.exc = ""

\* C24 as stated: each output field equals the value of its raw field when
\* the raw field is present and "N/A" when it is absent
C24_FieldsEqualRaw ==
    Extracted =>
        \A f \in FieldsOf(op) :
            result.val.d[f.label] = Get(GroupOf(op, raw), f.key, NA)

\* C24: each output field is the value of its own raw field when that field
\* is present, as its str() text for Latitude, Longitude, ASN, GMT Offset and
\* Is DST, and "N/A" when it is absent, whatever the other fields hold; and
\* what a category function returns or raises is what it returns or raises
\* for the response without the keys of the other categories, also inside
\* the result of process_all_data.
C24_FieldsFromOwnGroup ==
    /\ Extracted =>
          \A f \in FieldsOf(op) :
              result.val.d[f.label] =
                  LET value == Get(GroupOf(op, raw), f.key, NA)
                  IN  IF f.text THEN str(value) ELSE value
    /\ op \in FieldExtractors => result = Extract(op, OwnPart(op, raw))
    /\ (op = "process_all_data" /\ result.exc = "" /\ Truthy(result.val)) =>
          \A extractor \in FieldExtractors :
              result.val.d[CategoryOf(extractor)] =
                  Extract(extractor, OwnPart(extractor, raw)).val

\* a partially filled connection group beside a timezone that is no mapping:
\* a mix of "N/A", a passed-through number and str(None)
C24_Witness ==
    /\ op = "extract_connection_info"
    /\ result.exc = ""
    /\ "timezone" \in DOMAIN raw.d
    /\ raw.d["timezone"].t # "dict"
    /\ result.val.d["ISP"] = NA
    /\ result.val.d["ASN"] = Text("None")
    /\ result.val.d["Connection Type"] = PyInt(4)

\* a response with a text under ip_address in which a group key holds a
\* value that is no mapping
HasNonMappingGroup(data) ==
    /\ data.t = "dict"
    /\ "ip_address" \in DOMAIN data.d
    /\ data.d["ip_address"].t = "str"
    /\ \E group \in GroupKeys \cap DOMAIN data.d : data.d[group].t # "dict"

\* C25: the transformer never raises for malformed optional fields: for a
\* raw response containing ip_address in which a group key holds a value
\* that is not a mapping, process_all_data returns a result
C25_NonMappingGroupReturns ==
    (op = "process_all_data" /\ HasNonMappingGroup(raw)) => result.exc = ""

-----------------------------------------------------------------------------
(* Properties of the security category (checked under Spec) *)

\* the drawn flag values that are truthy: True, 1 and the text "false";
\* False, 0, the empty text and None are not
TruthyFlagValues == {PyTrue, PyInt(1), Text("false")}

\* the flags of a security group that hold a truthy value
TruthyFlags(security) ==
    {f \in SecurityFlags \cap DOMAIN security.d :
         security.d[f] \in TruthyFlagValues}

\* C26: a non-boolean security flag is counted by truthiness: for every
\* value stored under is_vpn, is_proxy, is_tor or is_relay (1, 0, "", "false",
\* null) the flag contributes to the threat count exactly when the value is
\* truthy, and no exception is raised.
C26_FlagsByTruthiness ==
    /\ op = "_assess_threat_level" =>
          /\ result.exc = ""
          /\ result.val.s = ExpectedThreatLevel(TruthyFlags(arg))
    /\ (op = "extract_security_info"
            /\ Get(raw, "security", EmptyDict).t = "dict") =>
          /\ result.exc = ""
          /\ result.val.d["Threat Level"].s =
                 ExpectedThreatLevel(TruthyFlags(Get(raw, "security", EmptyDict)))

\* 1 and "false" counted, the empty text and null not
C26_Witness ==
    /\ op = "_assess_threat_level"
    /\ DOMAIN arg.d = SecurityFlags
    /\ arg.d["is_vpn"] = PyInt(1)
    /\ arg.d["is_proxy"] = PyStr(<<>>)
    /\ arg.d["is_tor"] = Text("false")
    /\ arg.d["is_relay"] = PyNone
    /\ result.val.s = <<"Medium (Multiple: ", "VPN", ", ", "Tor", ")">>

\* the flags whose field of a returned security category is truthy
TruthyFields(security_info) ==
    {f \in SecurityFlags : security_info.d[FlagLabel(f)] \in TruthyFlagValues}

\* extract_security_info has returned a security category
SecurityExtracted == op = "extract_security_info" /\ result.exc = ""

\* C27: in every security category returned by extract_security_info,
\* 'Threat Level' is consistent with the four flag fields of the same output:
\* "Clean" exactly when none of them is truthy, starting with "Low" exactly
\* when one is, starting with "Medium" exactly when two or more are, and
\* listing exactly the names of the truthy flag fields.
C27_ThreatLevelConsistent ==
    SecurityExtracted =>
        LET level == result.val.d["Threat Level"].s
            on == TruthyFields(result.val)
        IN  /\ level = <<"Clean">> <=> Cardinality(on) = 0
            /\ level[1] = "Low (" <=> Cardinality(on) = 1
            /\ level[1] = "Medium (Multiple: " <=> Cardinality(on) >= 2
            /\ \A f \in SecurityFlags :
                  f \in on <=> \E i \in DOMAIN level : level[i] = ThreatName(f)
            /\ level = ExpectedThreatLevel(on)

\* a security category with exactly the proxy and relay fields set
C27_Witness ==
    /\ SecurityExtracted
    /\ result.val.d["Is VPN"] = PyFalse
    /\ result.val.d["Is Proxy"] = PyTrue
    /\ result.val.d["Is Tor"] = PyFalse
    /\ result.val.d["Is Relay"] = PyTrue
    /\ result.val.d["Threat Level"].s =
           <<"Medium (Multiple: ", "Proxy", ", ", "Relay", ")">>

-----------------------------------------------------------------------------
(* Properties of the menu loop (checked under SpecFront) *)

SlotOptions == {"main.display_table_format", "main.save_last_result"}

\* what the loop itself asks around a handler: the menu choice and the pause
LoopPrompts == ChoicePrompt \o <<"Press Enter to continue...">>

\* the table or the save menu was shown
Rendered ==
    \/ Shows("IP ADDRESS INFORMATION (TABLE VIEW)")
    \/ Shows("Save Options")

\* C28: options 3 (table) and 4 (save) render or write a file only when the
\* 'last result' slot holds a non-empty CategorizedInfo; the slot is empty
\* from the start of run() until the first successful lookup, and whenever
\* it is empty the two options emit the 'No data available' warning, prompt
\* for nothing, write no file and leave the slot unchanged.
C28_NoDataWarning ==
    [][/\ op' \in SlotOptions =>
             IF Truthy(slot)
             THEN Rendered' /\ ~Shows(NoDataWarning[2])'
             ELSE /\ screen' = NoDataWarning
                  /\ prompts' = LoopPrompts
                  /\ files' = <<>>
                  /\ slot' = slot
       /\ (op' = "main.__init__" /\ pc' = "menu") => slot' = PyNone
       /\ (~Truthy(slot) /\ Truthy(slot')) => LookupSucceeded']_vars

\* option 4 was taken with the slot emptied by a lookup that failed
\* validation: only the warning, no file
C28_Witness ==
    /\ op = "main.save_last_result"
    /\ slot = EmptyDict
    /\ screen = NoDataWarning
    /\ files = <<>>

MenuOptions ==
    {"main.get_current_ip_info", "main.lookup_specific_ip",
     "main.display_table_format", "main.save_last_result",
     "main.test_api_connection"}

\* the menu loop is running and waits for a choice
AtMenu == frontend = "cli" /\ pc = "menu" /\ running

\* C29: the CLI menu loop terminates exactly on option 6: after
\* exit_application has set running to False nothing more is shown, asked or
\* fetched; after any of options 1-5, whether it succeeded or failed, the
\* loop is back at the menu; and an input outside '1'..'6' triggers no action.
C29_LoopEndsOnOption6 ==
    [][/\ (frontend = "cli" /\ ~AtMenu /\ pc # "start") => UNCHANGED vars
       /\ op' \in MenuOptions => AtMenu'
       /\ (AtMenu /\ ~AtMenu') => op' = "main.exit_application"
       /\ op' = "main.exit_application" => ~running' /\ calls' = calls
       /\ op' = "main.get_user_choice" =>
             /\ AtMenu'
             /\ slot' = slot
             /\ files' = <<>>
             /\ calls' = calls
             /\ sent' = PyNone]_vars

\* the loop is left only by option 6 or by an exception that no handler
\* catches, and nothing follows either
LoopLeftByExitOrException ==
    [][/\ (frontend = "cli" /\ ~AtMenu /\ pc # "start") => UNCHANGED vars
       /\ (AtMenu /\ ~AtMenu') =>
             \/ op' = "main.exit_application"
             \/ op' \in LookupOptions /\ result'.exc # ""
       /\ op' = "main.get_user_choice" => AtMenu' /\ slot' = slot /\ calls' = calls
       /\ (op' \in MenuOptions /\ result'.exc = "") => AtMenu']_vars

-----------------------------------------------------------------------------
(* Properties of the web application without a credential *)

\* the web application is serving with api_client None
ServingWithoutClient ==
    frontend = "web" /\ pc = "serving" /\ api_client = "None"

\* C30: when the web application starts without a credential (api_client is
\* None), every request to /api/current-ip, /api/lookup-ip and
\* /api/test-connection answers 500 with the 'API client not initialized'
\* error and no outbound network call is ever made, for any sequence of
\* requests.
C30_NotInitialized ==
    /\ (frontend = "web" /\ pc = "serving") =>
          (api_client = "None" <=> ~Truthy(api_key))
    /\ ServingWithoutClient =>
          /\ calls = 0
          /\ last = NoCall
          /\ sent = PyNone
          /\ op \in WebEndpoints =>
                /\ reply.status = 500
                /\ reply.body =
                       PyDict("error" :>
                           PyStr(<<"API client not initialized. Check your API key.">>))

\* a lookup posted with an address to the application without a client
C30_Witness ==
    /\ ServingWithoutClient
    /\ op = "app.lookup_ip"
    /\ arg.t = "dict"
    /\ "ip_address" \in DOMAIN arg.d
    /\ Truthy(arg.d["ip_address"])
    /\ reply.status = 500

====
